----------------------------- MODULE CacheProofs ----------------------------
(***************************************************************************)
(* Proofs about what is kept to be used again.                             *)
(*                                                                         *)
(* The files of CandleCaches, for any calendar, trading sessions, quiet    *)
(* slots and late files, any listing, and any sequence of calls, failures  *)
(* and deaths: a dump that is kept lacks no day but one that had no file,  *)
(* a stock's files never mix two adjustments, a cached month holds what    *)
(* the source has of it, and a call returns each candle of its range once, *)
(* both but for the gaps CacheIsSound names.  Each has an inductive        *)
(* invariant: DumpInv, AdjustInv, SourceInv and ReturnInv.                 *)
(*                                                                         *)
(* The computed series of ParameterSweep, for any grid of jobs, any number *)
(* of workers and any number of them killed: what a sweep returns is what  *)
(* the jobs return when each is run by itself.  Its invariant is SweepInv. *)
(***************************************************************************)
EXTENDS CandleCaches, ParameterSweep, FiniteSetTheorems, FunctionTheorems,
        WellFoundedInduction, SequenceTheorems, TLAPS

\* What a candle of a file or of a response is.
Candle == [slot : Slots, final : BOOLEAN, adjusted : Nat]

\* The files of the cache.
Disk ==
  /\ DOMAIN chunk \subseteq MonthNumbers /\ DOMAIN partial \subseteq MonthNumbers
  /\ \A m \in DOMAIN chunk : chunk[m] \in Seq(Candle)
  /\ \A m \in DOMAIN partial : partial[m] \in Seq(Candle)
  /\ meta \in Int

\* A call under way. Its fields are spelt out: most steps change one or two.
InCall ==
  /\ call = [pc |-> call.pc, first |-> call.first, last |-> call.last,
             latest |-> call.latest, until |-> call.until,
             delta |-> call.delta, missing |-> call.missing, got |-> call.got,
             candles |-> call.candles, month |-> call.month, runEnd |-> call.runEnd]
  /\ call.pc \in {"hook", "drop", "mark", "classify", "fetch", "save", "promote"}
  /\ call.first \in MonthNumbers /\ call.last \in MonthNumbers
  /\ call.latest \in Nat /\ call.until \in Nat
  /\ call.delta \subseteq MonthNumbers /\ call.missing \subseteq MonthNumbers
  /\ call.candles \in Seq(Candle)
  /\ call.month \in Nat /\ call.runEnd \in Nat

\* The months of a fetch that are still to be saved.
Saving ==
  /\ call.month < call.runEnd /\ call.runEnd <= Months
  /\ call.month \notin call.delta
  /\ call.delta = {} \/ call.runEnd = call.month + 1

\* The type of the cache and where its calls can be.
CacheShape ==
  /\ now \in Nat /\ splits \in Nat /\ listing \in Listings
  /\ Disk
  /\ call = Idle \/ InCall
  /\ call.pc \in {"fetch", "save", "promote"} => call.delta \subseteq DOMAIN partial
  /\ call.pc \in {"save", "promote"} => Saving

\* All of the candles are adjusted for the first n splits.
AdjustedAs(candles, n) == \A i \in DOMAIN candles : candles[i].adjusted = n

(***************************************************************************)
(* The inductive invariant of the stock cache. Its mark is never ahead of  *)
(* the splits there have been; without a mark there is no file; and while  *)
(* the mark is that of all the splits, so are the files and what a call is *)
(* about to save. A split in between makes the mark old, and what is on    *)
(* disk or in hand then may be anything until on_cache_open has dropped    *)
(* it.                                                                     *)
(***************************************************************************)
AdjustInv ==
  /\ CacheShape
  /\ source = "stock" =>
       /\ meta <= splits
       /\ meta = Absent => /\ DOMAIN chunk = {} /\ DOMAIN partial = {}
                           /\ call.pc \in {"idle", "hook", "mark"}
       /\ call.pc \in {"drop", "mark"} => call.latest <= splits
       /\ call.pc = "mark" => DOMAIN chunk = {} /\ DOMAIN partial = {}
       /\ meta = splits =>
            /\ \A m \in DOMAIN chunk : AdjustedAs(chunk[m], splits)
            /\ \A m \in DOMAIN partial : AdjustedAs(partial[m], splits)
            /\ call.pc \in {"save", "promote"} => AdjustedAs(call.candles, splits)

(***************************************************************************)
(* The inductive invariant of the dumps. The month a call took to be the   *)
(* current one is not ahead of the clock, its own months are not ahead of  *)
(* that, and what it is about to write is whole.                           *)
(***************************************************************************)
DumpInv ==
  /\ now \in Nat /\ source \in Sources
  /\ dump # NoDump =>
       /\ dump = [pc |-> dump.pc, todo |-> dump.todo, days |-> dump.days,
                  current |-> dump.current]
       /\ dump.pc \in {"month", "write"}
       /\ dump.todo \subseteq MonthNumbers
       /\ dump.current \in Nat /\ MonthStart(dump.current) <= now
       /\ \A m \in dump.todo : m <= dump.current
       /\ dump.pc = "write" =>
            /\ dump.todo # {}
            /\ Whole(Min(dump.todo), dump.days)
  /\ DumpIsWhole

-----------------------------------------------------------------------------
(* The calendar. *)

(***************************************************************************)
(* The sizes of the calendar are those it was declared with.               *)
(***************************************************************************)
LEMMA Sizes ==
  /\ Months \in Nat \ {0} /\ DaysPerMonth \in Nat \ {0} /\ SlotsPerDay \in Nat \ {0}
  /\ Listings \subseteq Nat
BY CalendarAssumption

\* The quotient of k by n.
LEMMA QuotientIs ==
  ASSUME NEW k \in Nat, NEW n \in Nat \ {0}, NEW q \in Int
  PROVE  k \div n = q <=> n * q <= k /\ k < n * (q + 1)
<1> DEFINE d == k \div n
<1>1. d \in Int /\ n * d <= k /\ k < n * d + n
  BY SMTT(30)
<1> HIDE DEF d
<1>2. ASSUME q < d PROVE n * (q + 1) <= n * d
  BY <1>1, <1>2, SMTT(30)
<1>3. ASSUME d < q PROVE n * d + n <= n * q
  BY <1>1, <1>3, SMTT(30)
<1>4. n * (q + 1) = n * q + n
  BY SMTT(30)
<1>5. n * q \in Int /\ n * d \in Int
  BY <1>1
<1>6. CASE q = d
  BY <1>1, <1>4, <1>6 DEF d
<1>7. CASE q < d
  BY <1>1, <1>2, <1>4, <1>5, <1>7 DEF d
<1>8. CASE d < q
  BY <1>1, <1>3, <1>4, <1>5, <1>8 DEF d
<1> QED
  BY <1>1, <1>6, <1>7, <1>8

\* When a day starts ...
LEMMA DayStartIs ==
  ASSUME NEW d \in Int
  PROVE  /\ DayStart(d) \in Int /\ DayStart(d) = 2 * (SlotsPerDay * d)
         /\ DayStart(d + 1) = DayStart(d) + 2 * SlotsPerDay
         /\ d \in Nat => DayStart(d) \in Nat
<1>1. SlotsPerDay \in Nat
  BY Sizes
<1> QED
  BY <1>1, SMTT(30) DEF DayStart

\* ... and which of two starts first.
LEMMA DayStartGrows ==
  ASSUME NEW d \in Int, NEW e \in Int
  PROVE  d < e <=> DayStart(d) < DayStart(e)
<1>1. SlotsPerDay \in Nat \ {0}
  BY Sizes
<1>2. ASSUME NEW x \in Int, NEW y \in Int, x < y PROVE SlotsPerDay * x < SlotsPerDay * y
  BY <1>1, <1>2, SMTT(30)
<1>3. /\ DayStart(d) = 2 * (SlotsPerDay * d) /\ DayStart(e) = 2 * (SlotsPerDay * e)
      /\ SlotsPerDay * d \in Int /\ SlotsPerDay * e \in Int
  BY <1>1, DayStartIs
<1>4. CASE d < e
  BY <1>2, <1>3, <1>4
<1>5. CASE e < d
  BY <1>2, <1>3, <1>5
<1> QED
  BY <1>3, <1>4, <1>5

\* The day of a slot is the one it lies in.
LEMMA DayOfIs ==
  ASSUME NEW k \in Nat
  PROVE  /\ DayOf(k) \in Nat
         /\ \A d \in Int : DayOf(k) = d <=> DayStart(d) <= StartOf(k) /\ EndOf(k) <= DayStart(d + 1)
<1>1. SlotsPerDay \in Nat \ {0}
  BY Sizes
<1>2. DayOf(k) \in Nat
  BY <1>1, SMTT(30) DEF DayOf
<1>3. ASSUME NEW d \in Int
      PROVE  DayOf(k) = d <=> DayStart(d) <= StartOf(k) /\ EndOf(k) <= DayStart(d + 1)
  <2>1. DayOf(k) = d <=> SlotsPerDay * d <= k /\ k < SlotsPerDay * (d + 1)
    BY <1>1, QuotientIs DEF DayOf
  <2>2. SlotsPerDay * d \in Int /\ SlotsPerDay * (d + 1) \in Int
    BY <1>1
  <2>3. DayStart(d) = 2 * (SlotsPerDay * d) /\ DayStart(d + 1) = 2 * (SlotsPerDay * (d + 1))
    BY DayStartIs
  <2> QED
    BY <2>1, <2>2, <2>3 DEF StartOf, EndOf
<1> QED
  BY <1>2, <1>3

\* When a month starts ...
LEMMA MonthStartIs ==
  ASSUME NEW m \in Int
  PROVE  /\ MonthStart(m) \in Int /\ (m \in Nat => MonthStart(m) \in Nat)
         /\ MonthStart(m) = DayStart(DaysPerMonth * m) /\ DaysPerMonth * m \in Int
         /\ \E h \in Int : MonthStart(m) = 2 * h
<1>1. DaysPerMonth \in Nat /\ SlotsPerDay \in Nat
  BY Sizes
<1>2. DaysPerMonth * m \in Int /\ (m \in Nat => DaysPerMonth * m \in Nat)
  BY <1>1, SMTT(30)
<1>3. SlotsPerDay * (DaysPerMonth * m) \in Int
  BY <1>1, <1>2
<1> QED
  BY <1>2, <1>3, DayStartIs DEF MonthStart

\* ... and which of two starts first.
LEMMA MonthStartGrows ==
  ASSUME NEW m \in Int, NEW n \in Int
  PROVE  m < n <=> MonthStart(m) < MonthStart(n)
<1>1. DaysPerMonth \in Nat \ {0}
  BY Sizes
<1>2. ASSUME NEW x \in Int, NEW y \in Int, x < y PROVE DaysPerMonth * x < DaysPerMonth * y
  BY <1>1, <1>2, SMTT(30)
<1>3. DaysPerMonth * m \in Int /\ DaysPerMonth * n \in Int
  BY <1>1
<1>4. DaysPerMonth * m < DaysPerMonth * n <=> MonthStart(m) < MonthStart(n)
  BY <1>3, DayStartGrows DEF MonthStart
<1>5. m < n <=> DaysPerMonth * m < DaysPerMonth * n
  <2>1. CASE m < n
    BY <1>2, <2>1
  <2>2. CASE n < m
    BY <1>2, <1>3, <2>2
  <2>3. CASE m = n
    BY <1>3, <2>3
  <2> QED
    BY <2>1, <2>2, <2>3
<1> QED
  BY <1>4, <1>5

\* The month of a slot is the one it lies in.
LEMMA MonthOfIs ==
  ASSUME NEW k \in Nat
  PROVE  /\ MonthOf(k) \in Nat
         /\ \A m \in Int :
              MonthOf(k) = m <=> MonthStart(m) <= StartOf(k) /\ EndOf(k) <= MonthStart(m + 1)
<1>1. DaysPerMonth \in Nat \ {0} /\ SlotsPerDay \in Nat \ {0}
  BY Sizes
<1>2. DayOf(k) \in Nat
  BY DayOfIs
<1>3. MonthOf(k) \in Nat
  BY <1>1, <1>2, SMTT(30) DEF MonthOf
<1>4. ASSUME NEW m \in Int
      PROVE  MonthOf(k) = m <=> MonthStart(m) <= StartOf(k) /\ EndOf(k) <= MonthStart(m + 1)
  <2>1. MonthOf(k) = m <=> DaysPerMonth * m <= DayOf(k) /\ DayOf(k) < DaysPerMonth * (m + 1)
    BY <1>1, <1>2, QuotientIs DEF MonthOf
  <2> DEFINE d == DayOf(k)
             a == DaysPerMonth * m
             b == DaysPerMonth * (m + 1)
  <2>2. d \in Int /\ a \in Int /\ b \in Int
    BY <1>1, <1>2
  <2>3. /\ DayStart(d) <= StartOf(k) /\ EndOf(k) <= DayStart(d + 1)
        /\ StartOf(k) \in Int /\ EndOf(k) \in Int /\ StartOf(k) < EndOf(k)
    BY <2>2, DayOfIs DEF StartOf, EndOf
  <2>4. MonthStart(m) = DayStart(a) /\ MonthStart(m + 1) = DayStart(b)
    BY DEF MonthStart
  <2> HIDE DEF d, a, b
  <2>5. /\ DayStart(a) \in Int /\ DayStart(b) \in Int /\ DayStart(d) \in Int
        /\ DayStart(d + 1) \in Int
    BY <2>2, DayStartIs
  <2>6. /\ d < a <=> DayStart(d) < DayStart(a)
        /\ a < d + 1 <=> DayStart(a) < DayStart(d + 1)
        /\ d < b <=> DayStart(d) < DayStart(b)
        /\ b < d + 1 <=> DayStart(b) < DayStart(d + 1)
    BY <2>2, DayStartGrows
  <2>7. d < a => d + 1 <= a
    BY <2>2
  <2>8. d + 1 <= a => DayStart(d + 1) <= DayStart(a)
    BY <2>2, <2>5, <2>6
  <2>9. a <= d /\ d < b => DayStart(a) <= StartOf(k) /\ EndOf(k) <= DayStart(b)
    BY <2>2, <2>3, <2>5, <2>6
  <2>10. DayStart(a) <= StartOf(k) /\ EndOf(k) <= DayStart(b) => a <= d /\ d < b
    BY <2>2, <2>3, <2>5, <2>6, <2>8
  <2> QED
    BY <2>1, <2>4, <2>9, <2>10 DEF d, a, b
<1> QED
  BY <1>3, <1>4

\* A set of numbers that is not empty has a least one.
LEMMA LeastOf ==
  ASSUME NEW S \in SUBSET Nat, S # {}
  PROVE  Min(S) \in S /\ Min(S) \in Nat /\ \A x \in S : Min(S) <= x
<1>1. PICK x \in S : \A y \in S : ~(<<y, x>> \in OpToRel(<, Nat))
  BY WFMin, NatLessThanWellFounded
<1>2. \A y \in S : x <= y
  <2> SUFFICES ASSUME NEW y \in S, ~(x <= y) PROVE FALSE
    OBVIOUS
  <2>1. x \in Nat /\ y \in Nat /\ y < x
    OBVIOUS
  <2>2. <<y, x>> \in OpToRel(<, Nat)
    BY <2>1 DEF OpToRel
  <2> QED
    BY <1>1, <2>2
<1>3. \E z \in S : \A y \in S : z <= y
  BY <1>2
<1>4. Min(S) \in S /\ \A y \in S : Min(S) <= y
  BY <1>3 DEF Min
<1> QED
  BY <1>4

-----------------------------------------------------------------------------
(* The dumps: FetchMonth, and what is kept of it. *)

\* The month of the clock is the last that has started.
LEMMA CurrentMonth ==
  ASSUME now \in Nat
  PROVE  /\ now \div MonthStart(1) \in Nat
         /\ \A m \in Nat : MonthStart(m) <= now <=> m <= now \div MonthStart(1)
<1> DEFINE l == MonthStart(1)
           q == now \div l
<1>1. MonthStart(0) = 0 /\ l \in Nat \ {0}
  <2>1. MonthStart(0) = 0
    BY Sizes DEF MonthStart, DayStart
  <2>2. MonthStart(0) < MonthStart(1) /\ MonthStart(1) \in Int
    BY MonthStartGrows, MonthStartIs
  <2> QED
    BY <2>1, <2>2
<1>2. \A m \in Nat : MonthStart(m) = l * m
  <2> SUFFICES ASSUME NEW m \in Nat PROVE MonthStart(m) = l * m
    OBVIOUS
  <2>1. SlotsPerDay \in Nat /\ DaysPerMonth \in Nat
    BY Sizes
  <2>2. MonthStart(m) = 2 * SlotsPerDay * (DaysPerMonth * m) /\ l = 2 * SlotsPerDay * (DaysPerMonth * 1)
    BY DEF MonthStart, DayStart
  <2> QED
    BY <2>1, <2>2, SMTT(30)
<1> HIDE DEF l
<1>3. q \in Int /\ l * q <= now /\ now < l * (q + 1)
  <2>1. q \in Nat
    BY <1>1, SMTT(30)
  <2> QED
    BY <1>1, <2>1, QuotientIs
<1>4. q \in Nat
  BY <1>1, SMTT(30)
<1>5. ASSUME NEW m \in Nat PROVE MonthStart(m) <= now <=> m <= q
  <2> HIDE DEF q
  <2>1. MonthStart(m) = l * m /\ MonthStart(q) = l * q /\ MonthStart(q + 1) = l * (q + 1)
    BY <1>2, <1>4
  <2>2. MonthStart(m) \in Int /\ MonthStart(q) \in Int /\ MonthStart(q + 1) \in Int
    BY <1>4, MonthStartIs
  <2>3. (q < m <=> MonthStart(q) < MonthStart(m)) /\ (m < q + 1 <=> MonthStart(m) < MonthStart(q + 1))
    BY <1>4, MonthStartGrows
  <2>4. MonthStart(q) <= now /\ now < MonthStart(q + 1)
    BY <1>3, <2>1
  <2>5. m <= q => MonthStart(m) <= MonthStart(q)
    <3>1. m < q => MonthStart(m) < MonthStart(q)
      BY <1>4, MonthStartGrows
    <3> QED
      BY <1>4, <2>2, <3>1
  <2>6. q < m => q + 1 <= m
    BY <1>4
  <2>7. q + 1 <= m => MonthStart(q + 1) <= MonthStart(m)
    <3>1. q + 1 < m => MonthStart(q + 1) < MonthStart(m)
      BY <1>4, MonthStartGrows
    <3> QED
      BY <1>4, <2>2, <3>1
  <2> QED
    BY <1>4, <2>2, <2>4, <2>5, <2>6, <2>7
<1> QED
  BY <1>4, <1>5 DEF l

(***************************************************************************)
(* What is fetched of a month that is kept: all there will ever be, but for *)
(* the days of a metrics month whose file is not there now.                *)
(***************************************************************************)
LEMMA KeptIsWhole ==
  ASSUME DumpInv, IsDump, dump # NoDump, NEW m \in dump.todo, Keeps(m, FetchMonth(m))
  PROVE  /\ FetchMonth(m) \subseteq {d \in DaysOf(m) : DayListed(d)}
         /\ \A d \in DaysOf(m) \ FetchMonth(m) :
              DayListed(d) => /\ source = "metrics" /\ MonthStart(m + 1) <= now
                              /\ ~Published([kind |-> "day", n |-> d])
<1>1. m \in Nat /\ m <= dump.current /\ MonthStart(dump.current) <= now
      /\ now \in Nat /\ dump.current \in Nat
  BY Sizes DEF DumpInv, MonthNumbers
<1>2. CASE source = "funding"
  BY <1>2 DEF Keeps, FetchMonth
<1>3. CASE source = "metrics"
  <2>1. m + 1 <= dump.current
    BY <1>1, <1>3 DEF Keeps
  <2>2. MonthStart(m + 1) <= now
    <3>1. MonthStart(m + 1) \in Int /\ MonthStart(dump.current) \in Int
      BY <1>1, MonthStartIs
    <3>2. m + 1 < dump.current => MonthStart(m + 1) < MonthStart(dump.current)
      BY <1>1, MonthStartGrows
    <3> QED
      BY <1>1, <2>1, <3>1, <3>2
  <2>3. \A d \in DaysOf(m) : Published([kind |-> "day", n |-> d]) => DayListed(d)
    BY DEF Published, FileEnd, DayListed
  <2> QED
    BY <1>3, <2>2, <2>3 DEF FetchMonth
<1> QED
  BY <1>2, <1>3 DEF IsDump

\* An empty directory satisfies the invariant.
LEMMA InitDumpInv == InitCaches => DumpInv
BY DEF InitCaches, InitWorld, InitDump, DumpInv, DumpIsWhole

\* The clock does not go back, and what is listed stays so.
LEMMA NowGrows ==
  ASSUME NextCaches \/ UNCHANGED <<world, cacheVars, dumpVars>>, now \in Nat
  PROVE  now' \in Nat /\ now <= now' /\ listing' = listing /\ source' = source
BY DEF NextCaches, Outside, Tick, Split, Appear, world, CacheStep, DumpStep, cacheVars, dumpVars

\* Every step preserves the invariant, one case for each step of a dump.
LEMMA NextDumpInv ==
  ASSUME DumpInv, NextCaches \/ UNCHANGED <<world, cacheVars, dumpVars>>
  PROVE  DumpInv'
<1>1. now \in Nat /\ now' \in Nat /\ now <= now' /\ listing' = listing /\ source' \in Sources
  BY NowGrows DEF DumpInv
<1>2. source' = source /\ absent \subseteq absent'
  <2>1. source' = source
    BY NowGrows DEF DumpInv
  <2>2. absent \subseteq absent'
    BY DEF NextCaches, Outside, DumpStep, DumpRequest, DumpRead, DumpFetch, DumpWrite, DumpReturn,
           DumpCrash, dumpVars
  <2> QED
    BY <2>1, <2>2
<1>0. ASSUME NEW m, NEW days, Whole(m, days) PROVE Whole(m, days)'
  BY <1>0, <1>1, <1>2 DEF Whole, DayListed, DaysOf, Days
<1>3. ASSUME dump # NoDump PROVE MonthStart(dump.current) <= now'
  BY <1>1, <1>3, MonthStartIs DEF DumpInv
<1>4. CASE UNCHANGED dumpVars
  <2>1. dump' = dump /\ file' = file
    BY <1>4 DEF dumpVars
  <2>2. DumpIsWhole'
    BY <1>0, <2>1 DEF DumpInv, DumpIsWhole
  <2> QED
    BY <1>0, <1>1, <1>3, <2>1, <2>2 DEF DumpInv
<1>5. CASE IsDump /\ DumpStep /\ UNCHANGED world
  <2>0. DumpIsWhole /\ now' = now
    BY <1>5 DEF DumpInv, world
  <2>1. CASE \E first, last \in MonthNumbers : first <= last /\ DumpRequest(first, last)
    <3>1. PICK first \in MonthNumbers, last \in MonthNumbers : first <= last /\ DumpRequest(first, last)
      BY <2>1
    <3>2. first \in Nat /\ last \in Nat /\ last < Months
      BY Sizes DEF MonthNumbers
    <3>3. /\ now \div MonthStart(1) \in Nat
          /\ \A m \in Nat : MonthStart(m) <= now <=> m <= now \div MonthStart(1)
      BY <1>1, CurrentMonth
    <3>4. dump' = [pc |-> "month", todo |-> first..last, days |-> {},
                   current |-> now \div MonthStart(1)] /\ file' = file
      BY <3>1 DEF DumpRequest
    <3>5. MonthStart(dump'.current) <= now
      BY <3>3, <3>4
    <3>6. \A m \in first..last : m \in MonthNumbers /\ m <= dump'.current
      <4>1. MonthStart(last) <= now
        BY <3>1 DEF DumpRequest
      <4>2. last <= dump'.current /\ dump'.current \in Nat
        BY <3>2, <3>3, <3>4, <4>1
      <4> QED
        BY <3>2, <4>2, Sizes DEF MonthNumbers
    <3>7. DumpIsWhole'
      BY <1>0, <2>0, <3>4 DEF DumpIsWhole
    <3> QED
      BY <1>1, <2>0, <3>3, <3>4, <3>5, <3>6, <3>7 DEF DumpInv
  <2>2. CASE DumpRead
    <3>1. DumpIsWhole'
      BY <1>0, <2>0, <2>2 DEF DumpIsWhole, DumpRead
    <3>2. dump # NoDump
      BY <2>2 DEF DumpRead, NoDump
    <3>3. dump' = NoDump \/ dump' = [dump EXCEPT !.todo = dump.todo \ {Min(dump.todo)}]
      BY <2>2 DEF DumpRead
    <3> QED
      BY <1>1, <1>3, <2>0, <2>2, <3>1, <3>2, <3>3 DEF DumpInv, DumpRead
  <2>3. CASE DumpFetch
    <3>1. DumpIsWhole'
      BY <1>0, <2>0, <2>3 DEF DumpIsWhole, DumpFetch
    <3>2. dump # NoDump /\ dump.todo # {} /\ dump.pc = "month"
      BY <2>3 DEF DumpFetch, NoDump
    <3>3. PICK m : m = Min(dump.todo)
      OBVIOUS
    <3>4. m \in dump.todo
      BY <3>2, <3>3, LeastOf, Sizes DEF DumpInv, MonthNumbers
    <3>5. PICK days : days = FetchMonth(m)
      OBVIOUS
    <3>6. CASE Keeps(m, days)
      <4>1. Whole(m, days)'
        <5>1. /\ days \subseteq {d \in DaysOf(m) : DayListed(d)}
              /\ \A d \in DaysOf(m) \ days :
                   DayListed(d) => /\ source = "metrics" /\ MonthStart(m + 1) <= now
                                   /\ ~Published([kind |-> "day", n |-> d])
          BY <1>5, <3>2, <3>4, <3>5, <3>6, KeptIsWhole
        <5>2. \A d \in DaysOf(m) :
                MonthStart(m + 1) <= now /\ ~Published([kind |-> "day", n |-> d]) => d \in absent'
          BY <2>3, <3>3 DEF DumpFetch
        <5> QED
          BY <1>1, <1>2, <5>1, <5>2 DEF Whole, DayListed, DaysOf, Days
      <4>2. dump' = [dump EXCEPT !.pc = "write", !.days = days]
        BY <2>3, <3>3, <3>5, <3>6 DEF DumpFetch
      <4>3. /\ dump'.pc = "write" /\ dump'.days = days /\ dump'.todo = dump.todo
            /\ dump'.current = dump.current
            /\ dump' = [pc |-> dump'.pc, todo |-> dump'.todo, days |-> dump'.days,
                        current |-> dump'.current]
        BY <3>2, <4>2 DEF DumpInv
      <4>4. Whole(Min(dump.todo), dump.days)'
        BY <3>3, <4>1, <4>3
      <4> QED
        BY <1>1, <1>3, <3>1, <3>2, <4>3, <4>4 DEF DumpInv
    <3>7. CASE ~Keeps(m, days)
      <4>1. dump' = [dump EXCEPT !.todo = dump.todo \ {m}]
        BY <2>3, <3>3, <3>5, <3>7 DEF DumpFetch
      <4> QED
        BY <1>1, <1>3, <3>1, <3>2, <4>1 DEF DumpInv
    <3> QED
      BY <3>6, <3>7
  <2>4. CASE DumpWrite
    <3>1. dump # NoDump /\ dump.pc = "write" /\ dump.todo # {}
      BY <2>4 DEF DumpWrite, NoDump, DumpInv
    <3>2. PICK m : m = Min(dump.todo)
      OBVIOUS
    <3>3. Whole(m, dump.days)
      BY <3>1, <3>2 DEF DumpInv
    <3>4. file' = Written(file, m, dump.days)
      BY <2>4, <3>2 DEF DumpWrite
    <3>5. DumpIsWhole'
      BY <1>0, <2>0, <3>3, <3>4 DEF DumpIsWhole, Written
    <3>6. dump' = [dump EXCEPT !.pc = "month", !.todo = dump.todo \ {m}, !.days = {}]
      BY <2>4, <3>2 DEF DumpWrite
    <3> QED
      BY <1>1, <1>3, <3>1, <3>5, <3>6 DEF DumpInv
  <2>5. CASE DumpReturn
    <3>1. DumpIsWhole'
      BY <1>0, <2>0, <2>5 DEF DumpIsWhole, DumpReturn
    <3> QED
      BY <1>1, <2>5, <3>1 DEF DumpInv, DumpReturn
  <2>6. CASE DumpCrash
    <3>1. PICK m : m = Min(dump.todo)
      OBVIOUS
    <3>2. file' = file \/ file' = Written(file, m, TornDays)
      BY <2>6, <3>1 DEF DumpCrash
    <3>3. DumpIsWhole'
      BY <1>0, <2>0, <3>2 DEF DumpIsWhole, Written
    <3> QED
      BY <1>1, <2>6, <3>3 DEF DumpInv, DumpCrash
  <2> QED
    BY <1>5, <2>1, <2>2, <2>3, <2>4, <2>5, <2>6 DEF DumpStep
<1>6. UNCHANGED dumpVars \/ (IsDump /\ DumpStep /\ UNCHANGED world)
  BY DEF NextCaches, Outside
<1> QED
  BY <1>4, <1>5, <1>6

(***************************************************************************)
(* A dump that is kept has all that its month will ever have, for any      *)
(* calendar, any days and months whose file is late, and any sequence of   *)
(* calls, failures and deaths; but for the days of a metrics month that a   *)
(* fetch found no file of when the month was over (get_metrics_with_cache,  *)
(* get_funding_with_cache).                                                *)
(***************************************************************************)
THEOREM DumpsAreWhole == SpecCaches => []DumpIsWhole
<1>1. InitCaches => DumpInv
  BY InitDumpInv
<1>2. DumpInv /\ [NextCaches]_<<world, cacheVars, dumpVars>> => DumpInv'
  BY NextDumpInv
<1>3. DumpInv => DumpIsWhole
  BY DEF DumpInv
<1> QED
  BY <1>1, <1>2, <1>3, PTL DEF SpecCaches

-----------------------------------------------------------------------------
(* Ranks: the ascending sequence of a set of numbers. *)

\* The place of k among the members of S, for k in S.
Rank(S, k) == Cardinality(UpTo(S, k))
Rising(s) == \A i, j \in DOMAIN s : i < j => s[i] < s[j]

\* The members of S up to k, one more at each member.
LEMMA UpToIs ==
  ASSUME NEW S, \A x \in S : x \in Int, NEW k \in Int
  PROVE  /\ \A j \in Int : j <= k => UpTo(S, j) \subseteq UpTo(S, k)
         /\ k \notin UpTo(S, k - 1)
         /\ k \in S => UpTo(S, k) = UpTo(S, k - 1) \cup {k}
         /\ k \notin S => UpTo(S, k) = UpTo(S, k - 1)
<1>1. \A j \in Int : j <= k => UpTo(S, j) \subseteq UpTo(S, k)
  BY DEF UpTo
<1>2. k \notin UpTo(S, k - 1)
  BY DEF UpTo
<1>3. \A x : x \in UpTo(S, k) <=> x \in UpTo(S, k - 1) \/ (x = k /\ k \in S)
  BY DEF UpTo
<1>4. ASSUME k \in S PROVE UpTo(S, k) = UpTo(S, k - 1) \cup {k}
  BY <1>3, <1>4
<1>5. ASSUME k \notin S PROVE UpTo(S, k) = UpTo(S, k - 1)
  BY <1>3, <1>5
<1> QED
  BY <1>1, <1>2, <1>4, <1>5

\* All of them, at the greatest.
LEMMA UpToAll ==
  ASSUME NEW S, NEW n \in Int, \A x \in S : x \in Int /\ 0 <= x /\ x <= n
  PROVE  UpTo(S, -1) = {} /\ UpTo(S, n) = S
<1>1. \A x : x \notin UpTo(S, -1)
  BY DEF UpTo
<1>2. UpTo(S, n) = S
  BY DEF UpTo
<1> QED
  BY <1>1, <1>2
\* Ranks count from 0 to the cardinality, by one at each member.
LEMMA RankIs ==
  ASSUME NEW n \in Nat, NEW S \in SUBSET (0..n)
  PROVE  /\ IsFiniteSet(S) /\ Cardinality(S) \in Nat
         /\ \A k \in Int : Rank(S, k) \in Nat /\ Rank(S, k) <= Cardinality(S)
         /\ Rank(S, n) = Cardinality(S) /\ Rank(S, -1) = 0
         /\ \A k \in Int : Rank(S, k) = Rank(S, k - 1) + (IF k \in S THEN 1 ELSE 0)
         /\ \A j, k \in Int : j <= k => Rank(S, j) <= Rank(S, k)
<1>0. \A k \in S : k \in Int /\ 0 <= k /\ k <= n
  OBVIOUS
<1>1. IsFiniteSet(S) /\ Cardinality(S) \in Nat
  <2>1. IsFiniteSet(0..n)
    BY FS_Interval
  <2>2. IsFiniteSet(S)
    BY <2>1, FS_Subset
  <2> QED
    BY <2>2, FS_CardinalityType
<1>2. ASSUME NEW k \in Int
      PROVE  IsFiniteSet(UpTo(S, k)) /\ Rank(S, k) \in Nat /\ Rank(S, k) <= Cardinality(S)
  <2>1. UpTo(S, k) \subseteq S
    BY DEF UpTo
  <2> QED
    BY <1>1, <2>1, FS_Subset, FS_CardinalityType DEF Rank
<1>3. UpTo(S, n) = S /\ UpTo(S, -1) = {}
  <2>1. n \in Int /\ \A x \in S : x \in Int /\ 0 <= x /\ x <= n
    BY <1>0
  <2> QED
    BY <2>1, UpToAll, Zenon
<1>4. Rank(S, n) = Cardinality(S) /\ Rank(S, -1) = 0
  BY <1>3, FS_EmptySet DEF Rank
<1>5. ASSUME NEW k \in Int
      PROVE  Rank(S, k) = Rank(S, k - 1) + (IF k \in S THEN 1 ELSE 0)
  <2>1. k \notin UpTo(S, k - 1) /\ IsFiniteSet(UpTo(S, k - 1))
    <3>1. k - 1 \in Int /\ \A x \in S : x \in Int
      BY <1>0
    <3>2. k \notin UpTo(S, k - 1)
      BY <3>1, UpToIs, Zenon
    <3> QED
      BY <1>2, <3>1, <3>2
  <2>2. CASE k \in S
    <3>1. UpTo(S, k) = UpTo(S, k - 1) \cup {k}
      BY <1>0, <2>2, UpToIs
    <3> QED
      BY <2>1, <2>2, <3>1, FS_AddElement DEF Rank
  <2>3. CASE k \notin S
    <3>1. UpTo(S, k) = UpTo(S, k - 1)
      BY <1>0, <2>3, UpToIs
    <3>2. Rank(S, k - 1) \in Nat
      BY <1>2
    <3> QED
      BY <2>3, <3>1, <3>2 DEF Rank
  <2> QED
    BY <2>2, <2>3
<1>6. ASSUME NEW j \in Int, NEW k \in Int, j <= k PROVE Rank(S, j) <= Rank(S, k)
  <2>1. UpTo(S, j) \subseteq UpTo(S, k)
    BY <1>0, <1>6, UpToIs
  <2> QED
    BY <1>2, <2>1, FS_Subset DEF Rank
<1> QED
  BY <1>1, <1>2, <1>4, <1>5, <1>6

\* Every place is that of a member: the first k whose rank is i.
LEMMA RankExists ==
  ASSUME NEW n \in Nat, NEW S \in SUBSET (0..n), NEW i \in 1..Cardinality(S)
  PROVE  \E k \in S : Rank(S, k) = i
<1> DEFINE Reached == {k \in Nat : Rank(S, k) >= i}
<1>1. Cardinality(S) \in Nat /\ i \in Nat /\ i >= 1 /\ i <= Cardinality(S)
  BY RankIs
<1>2. n \in Reached
  BY <1>1, RankIs
<1>3. PICK k : k = Min(Reached)
  OBVIOUS
<1>4. k \in Reached /\ k \in Nat /\ \A x \in Reached : k <= x
  <2>1. Reached \in SUBSET Nat /\ Reached # {}
    BY <1>2
  <2> HIDE DEF Reached
  <2> QED
    BY <1>3, <2>1, LeastOf
<1>5. k - 1 \notin Reached /\ k - 1 \in Int
  BY <1>4
<1>6. Rank(S, k - 1) < i
  <2>1. CASE k = 0
    BY <1>1, <2>1, RankIs
  <2>2. CASE k # 0
    <3>1. k - 1 \in Nat
      BY <1>4, <2>2
    <3>2. Rank(S, k - 1) \in Nat /\ ~(Rank(S, k - 1) >= i)
      BY <1>5, <3>1, RankIs
    <3> QED
      BY <1>1, <3>2
  <2> QED
    BY <2>1, <2>2
<1>7. Rank(S, k) >= i /\ k \in Int
  BY <1>4
<1>8. /\ Rank(S, k) = Rank(S, k - 1) + (IF k \in S THEN 1 ELSE 0)
      /\ Rank(S, k) \in Nat /\ Rank(S, k - 1) \in Nat
  BY <1>5, <1>7, RankIs
<1>9. k \in S /\ Rank(S, k) = i
  BY <1>1, <1>6, <1>7, <1>8
<1> QED
  BY <1>9

\* Members are ordered as their ranks are.
LEMMA RankDistinguishes ==
  ASSUME NEW n \in Nat, NEW S \in SUBSET (0..n), NEW j \in S, NEW k \in S
  PROVE  j < k <=> Rank(S, j) < Rank(S, k)
<1>1. ASSUME NEW x \in S, NEW y \in S, x < y PROVE Rank(S, x) < Rank(S, y)
  <2>1. x \in Int /\ y \in Int /\ y - 1 \in Int /\ x <= y - 1
    BY <1>1
  <2>2. Rank(S, x) <= Rank(S, y - 1) /\ Rank(S, y) = Rank(S, y - 1) + 1
        /\ Rank(S, x) \in Nat /\ Rank(S, y - 1) \in Nat
    BY <2>1, RankIs
  <2> QED
    BY <2>2
<1>2. j \in Int /\ k \in Int
  OBVIOUS
<1>3. Rank(S, j) \in Nat /\ Rank(S, k) \in Nat
  BY <1>2, RankIs
<1>4. CASE j < k
  BY <1>1, <1>4
<1>5. CASE k < j
  BY <1>1, <1>2, <1>3, <1>5
<1> QED
  BY <1>1, <1>2, <1>3, <1>4, <1>5

(***************************************************************************)
(* Ascending(S) is the one sequence of the elements of S that rises.       *)
(***************************************************************************)
LEMMA AscendingIs ==
  ASSUME NEW n \in Nat, NEW S \in SUBSET (0..n)
  PROVE  /\ Cardinality(S) \in Nat /\ DOMAIN Ascending(S) = 1..Cardinality(S)
         /\ Ascending(S) \in Seq(S) /\ Len(Ascending(S)) = Cardinality(S)
         /\ Ascending(S) = [i \in 1..Cardinality(S) |-> Ascending(S)[i]]
         /\ \A i \in 1..Cardinality(S) : Ascending(S)[i] \in S /\ Rank(S, Ascending(S)[i]) = i
         /\ \A k \in S : Rank(S, k) \in 1..Cardinality(S) /\ Ascending(S)[Rank(S, k)] = k
         /\ Rising(Ascending(S))
<1> DEFINE a == Ascending(S)
<1>1. Cardinality(S) \in Nat /\ DOMAIN a = 1..Cardinality(S)
      /\ a = [i \in 1..Cardinality(S) |-> a[i]]
  BY RankIs DEF Ascending
<1>2. ASSUME NEW i \in 1..Cardinality(S)
      PROVE  a[i] \in S /\ Rank(S, a[i]) = i
  <2>1. \E k \in S : Rank(S, k) = i
    BY RankExists
  <2>2. a[i] = CHOOSE k \in S : Rank(S, k) = i
    BY DEF Ascending, Rank
  <2> HIDE DEF a
  <2> QED
    BY <2>1, <2>2
<1>3. ASSUME NEW k \in S
      PROVE  Rank(S, k) \in 1..Cardinality(S) /\ a[Rank(S, k)] = k
  <2>1. Rank(S, k) \in 1..Cardinality(S)
    <3>1. k \in Int
      OBVIOUS
    <3>2. Rank(S, k) = Rank(S, k - 1) + 1 /\ Rank(S, k - 1) \in Nat
          /\ Rank(S, k) \in Nat /\ Rank(S, k) <= Cardinality(S)
      BY <3>1, RankIs
    <3> QED
      BY <1>1, <3>2
  <2>2. a[Rank(S, k)] \in S /\ Rank(S, a[Rank(S, k)]) = Rank(S, k)
    BY <1>2, <2>1
  <2> HIDE DEF a
  <2>3. ~(a[Rank(S, k)] < k) /\ ~(k < a[Rank(S, k)])
    <3> DEFINE b == a[Rank(S, k)]
    <3>1. Rank(S, k) \in Nat /\ b \in S /\ Rank(S, b) = Rank(S, k)
      BY <2>1, <2>2
    <3> HIDE DEF b
    <3>2. ~(b < k) /\ ~(k < b)
      <4>1. b < k <=> Rank(S, b) < Rank(S, k)
        BY <3>1, RankDistinguishes
      <4>2. k < b <=> Rank(S, k) < Rank(S, b)
        BY <3>1, RankDistinguishes
      <4> QED
        BY <3>1, <4>1, <4>2
    <3> QED
      BY <3>2 DEF b
  <2>4. \A x \in S : x \in Int
    OBVIOUS
  <2>5. a[Rank(S, k)] \in Int /\ k \in Int
    BY <2>2, <2>4
  <2> QED
    BY <2>1, <2>3, <2>5
<1>4. Rising(a)
  <2> SUFFICES ASSUME NEW i \in 1..Cardinality(S), NEW j \in 1..Cardinality(S), i < j
               PROVE  a[i] < a[j]
    BY <1>1 DEF Rising
  <2> HIDE DEF a
  <2> QED
    BY <1>2, RankDistinguishes
<1>5. a \in Seq(S) /\ Len(a) = Cardinality(S)
  <2> HIDE DEF a
  <2> QED
    BY <1>1, <1>2
<1> QED
  BY <1>1, <1>2, <1>3, <1>4, <1>5

\* A rising sequence on to S is the one that Ascending chooses.
LEMMA AscendingUnique ==
  ASSUME NEW n \in Nat, NEW S \in SUBSET (0..n), NEW m \in Nat, NEW s \in [1..m -> S],
         Rising(s), \A k \in S : \E i \in 1..m : s[i] = k
  PROVE  s = Ascending(S) /\ Cardinality(S) = m
<1>0. /\ DOMAIN s = 1..m /\ \A i \in 1..m : s[i] \in S /\ s[i] \in Int
      /\ \A i, j \in 1..m : i < j => s[i] < s[j]
  <2>1. \A k \in S : k \in Int
    OBVIOUS
  <2> QED
    BY <2>1 DEF Rising
<1>1. ASSUME NEW i \in 1..m PROVE Rank(S, s[i]) = i
  <2> DEFINE f == [j \in 1..i |-> s[j]]
  <2>1. \A j \in 1..i : j \in 1..m /\ s[j] \in S
    OBVIOUS
  <2>2. \A j \in 1..m : s[j] <= s[i] => j <= i
    <3> SUFFICES ASSUME NEW j \in 1..m, ~(j <= i) PROVE ~(s[j] <= s[i])
      OBVIOUS
    <3>1. i < j
      OBVIOUS
    <3> QED
      BY <1>0, <3>1
  <2>3. \A j \in 1..i : s[j] <= s[i]
    <3> SUFFICES ASSUME NEW j \in 1..i PROVE s[j] <= s[i]
      OBVIOUS
    <3>1. j < i \/ j = i
      OBVIOUS
    <3> QED
      BY <1>0, <2>1, <3>1
  <2>4. f \in [1..i -> UpTo(S, s[i])]
    BY <2>1, <2>3 DEF UpTo
  <2>5. \A j, k \in 1..i : f[j] = f[k] => j = k
    <3> SUFFICES ASSUME NEW j \in 1..i, NEW k \in 1..i, s[j] = s[k] PROVE j = k
      OBVIOUS
    <3>1. ~(j < k) /\ ~(k < j)
      BY <1>0, <2>1
    <3> QED
      BY <3>1
  <2>6. \A k \in UpTo(S, s[i]) : \E j \in 1..i : f[j] = k
    <3> SUFFICES ASSUME NEW k \in UpTo(S, s[i]) PROVE \E j \in 1..i : f[j] = k
      OBVIOUS
    <3>1. k \in S /\ k <= s[i]
      BY DEF UpTo
    <3>2. PICK j \in 1..m : s[j] = k
      BY <3>1
    <3>3. j \in 1..i
      BY <2>2, <3>1, <3>2
    <3> QED
      BY <3>2, <3>3
  <2> HIDE DEF f
  <2>7. f \in Bijection(1..i, UpTo(S, s[i]))
    BY <2>4, <2>5, <2>6, Fun_IsBij
  <2>8. ExistsBijection(1..i, UpTo(S, s[i]))
    BY <2>7, Fun_ExistsBij
  <2>9. IsFiniteSet(1..i) /\ Cardinality(1..i) = i
    BY FS_Interval
  <2> QED
    BY <2>8, <2>9, FS_Bijection DEF Rank
<1>2. Cardinality(S) = m
  <2>1. \A j, k \in 1..m : s[j] = s[k] => j = k
    <3> SUFFICES ASSUME NEW j \in 1..m, NEW k \in 1..m, s[j] = s[k] PROVE j = k
      OBVIOUS
    <3>1. ~(j < k) /\ ~(k < j)
      BY <1>0
    <3> QED
      BY <3>1
  <2>2. s \in Bijection(1..m, S)
    BY <2>1, Fun_IsBij
  <2>3. ExistsBijection(1..m, S)
    BY <2>2, Fun_ExistsBij
  <2>4. IsFiniteSet(1..m) /\ Cardinality(1..m) = m
    BY FS_Interval
  <2> QED
    BY <2>3, <2>4, FS_Bijection
<1>3. \A i \in 1..m : Ascending(S)[i] = s[i]
  <2> SUFFICES ASSUME NEW i \in 1..m PROVE Ascending(S)[i] = s[i]
    OBVIOUS
  <2>1. s[i] \in S /\ Rank(S, s[i]) = i
    BY <1>1
  <2> QED
    BY <2>1, AscendingIs
<1>4. Ascending(S) = [i \in 1..m |-> Ascending(S)[i]]
  BY <1>2, AscendingIs
<1>5. s = [i \in 1..m |-> s[i]]
  OBVIOUS
<1>6. [i \in 1..m |-> Ascending(S)[i]] = [i \in 1..m |-> s[i]]
  BY <1>3
<1> QED
  BY <1>2, <1>4, <1>5, <1>6

\* The slots, as a set of numbers up to one.
LEMMA SlotCount == NumSlots \in Nat /\ \A S \in SUBSET Slots : S \in SUBSET (0..NumSlots)
<1>1. NumSlots \in Nat
  BY Sizes, SMTT(30) DEF NumSlots
<1>2. ASSUME NEW S \in SUBSET Slots PROVE S \in SUBSET (0..NumSlots)
  BY <1>1 DEF Slots
<1> QED
  BY <1>1, <1>2

\* What is at the places K of a sequence.
LEMMA AtIs ==
  ASSUME NEW T, NEW c \in Seq(T), NEW K \in SUBSET (DOMAIN c)
  PROVE  /\ Cardinality(K) \in Nat /\ DOMAIN At(c, K) = 1..Cardinality(K)
         /\ \A i \in 1..Cardinality(K) :
              Ascending(K)[i] \in K /\ At(c, K)[i] = c[Ascending(K)[i]]
         /\ At(c, K) \in Seq(T)
<1>1. Len(c) \in Nat /\ DOMAIN c = 1..Len(c) /\ \A i \in 1..Len(c) : c[i] \in T
  OBVIOUS
<1>2. K \in SUBSET (0..Len(c))
  BY <1>1
<1>3. Cardinality(K) \in Nat /\ \A i \in 1..Cardinality(K) : Ascending(K)[i] \in K
  BY <1>1, <1>2, AscendingIs
<1>4. DOMAIN At(c, K) = 1..Cardinality(K)
      /\ \A i \in 1..Cardinality(K) : At(c, K)[i] = c[Ascending(K)[i]]
  BY DEF At
<1>5. \A i \in 1..Cardinality(K) : c[Ascending(K)[i]] \in T
  BY <1>1, <1>3
<1>6. At(c, K) \in [1..Cardinality(K) -> T]
  BY <1>5 DEF At
<1>7. At(c, K) \in Seq(T)
  BY <1>3, <1>6
<1> QED
  BY <1>3, <1>4, <1>7

\* The filters of a save choose among the candles in hand.
LEMMA SavedIs ==
  ASSUME NEW T, NEW c \in Seq(T), NEW m, NEW u
  PROVE  /\ OfMonth(c, m) \in Seq(T) /\ Closed(c, u) \in Seq(T)
         /\ \A j \in DOMAIN OfMonth(c, m) : \E i \in DOMAIN c :
              OfMonth(c, m)[j] = c[i] /\ MonthOf(c[i].slot) = m
         /\ \A j \in DOMAIN Closed(c, u) : \E i \in DOMAIN c :
              Closed(c, u)[j] = c[i] /\ EndOf(c[i].slot) <= u
<1>1. {i \in DOMAIN c : MonthOf(c[i].slot) = m} \in SUBSET (DOMAIN c)
  OBVIOUS
<1>2. {i \in DOMAIN c : EndOf(c[i].slot) <= u} \in SUBSET (DOMAIN c)
  OBVIOUS
<1>3. ASSUME NEW K \in SUBSET (DOMAIN c)
      PROVE  At(c, K) \in Seq(T) /\ \A j \in DOMAIN At(c, K) : \E i \in K : At(c, K)[j] = c[i]
  BY AtIs
<1>4. OfMonth(c, m) \in Seq(T) /\ \A j \in DOMAIN OfMonth(c, m) :
        \E i \in {i \in DOMAIN c : MonthOf(c[i].slot) = m} : OfMonth(c, m)[j] = c[i]
  BY <1>1, <1>3 DEF OfMonth
<1>5. Closed(c, u) \in Seq(T) /\ \A j \in DOMAIN Closed(c, u) :
        \E i \in {i \in DOMAIN c : EndOf(c[i].slot) <= u} : Closed(c, u)[j] = c[i]
  BY <1>2, <1>3 DEF Closed
<1> QED
  BY <1>4, <1>5

\* A source gives candles of slots.
LEMMA GivenAreSlots ==
  ASSUME IsCandles, NEW from, NEW to
  PROVE  SlotsGiven(from, to) \in SUBSET Slots
BY DEF IsCandles, SlotsGiven, Within, VisionSlots, StockSlots, Grid

\* What a fetch returns: a candle of each slot given, in order.
LEMMA GetCandlesIs ==
  ASSUME IsCandles, now \in Nat, splits \in Nat, NEW from, NEW to
  PROVE  /\ GetCandles(from, to) \in Seq(Candle)
         /\ SlotsIn(GetCandles(from, to)) = Ascending(SlotsGiven(from, to))
         /\ \A i \in DOMAIN GetCandles(from, to) :
              /\ GetCandles(from, to)[i].adjusted = splits
              /\ GetCandles(from, to)[i].final = (EndOf(GetCandles(from, to)[i].slot) <= now)
<1>1. PICK S : S = SlotsGiven(from, to)
  OBVIOUS
<1>2. S \in SUBSET Slots /\ NumSlots \in Nat /\ S \in SUBSET (0..NumSlots)
  BY <1>1, GivenAreSlots, SlotCount
<1>3. PICK a : a = Ascending(S)
  OBVIOUS
<1>4. /\ Cardinality(S) \in Nat /\ DOMAIN a = 1..Cardinality(S)
      /\ a = [i \in 1..Cardinality(S) |-> a[i]]
      /\ \A i \in 1..Cardinality(S) : a[i] \in S
  BY <1>2, <1>3, AscendingIs
<1>5. GetCandles(from, to) = [i \in 1..Cardinality(S) |-> Received(a[i])]
  BY <1>1, <1>3, <1>4 DEF GetCandles
<1>6. \A i \in 1..Cardinality(S) :
        /\ Received(a[i]) \in Candle /\ Received(a[i]).slot = a[i]
        /\ Received(a[i]).adjusted = splits /\ Received(a[i]).final = (EndOf(a[i]) <= now)
  BY <1>2, <1>4 DEF Received, Candle, EndOf, Slots
<1>7. GetCandles(from, to) \in Seq(Candle)
  BY <1>4, <1>5, <1>6
<1>8. SlotsIn(GetCandles(from, to)) = a
  BY <1>4, <1>5, <1>6 DEF SlotsIn
<1> QED
  BY <1>1, <1>3, <1>5, <1>6, <1>7, <1>8

\* A run of missing months is a range of them.
LEMMA RunEndIs ==
  ASSUME NEW S \in SUBSET MonthNumbers, S # {}
  PROVE  /\ Min(S) \in S /\ Min(S) \in Nat
         /\ RunEnd(S) \in Nat /\ RunEnd(S) <= Months /\ Min(S) < RunEnd(S)
         /\ \A m \in Min(S)..(RunEnd(S) - 1) : m \in S
<1>1. Months \in Nat /\ \A m \in S : m \in Nat /\ m < Months
  BY Sizes DEF MonthNumbers
<1>2. S \in SUBSET Nat
  BY <1>1
<1>3. PICK a : a = Min(S)
  OBVIOUS
<1>4. a \in S /\ a \in Nat /\ \A m \in S : a <= m
  BY <1>2, <1>3, LeastOf
<1>5. PICK E : E = {e \in 1..Months : e - 1 \in S /\ e \notin S}
  OBVIOUS
<1>6. PICK F : F = {e \in Nat : a < e /\ e \notin S}
  OBVIOUS
<1>7. F \in SUBSET Nat /\ Months \in F
  BY <1>1, <1>4, <1>6
<1>8. PICK f : f = Min(F)
  OBVIOUS
<1>9. f \in F /\ f \in Nat /\ \A e \in F : f <= e
  <2>1. F # {}
    BY <1>7
  <2> QED
    BY <1>7, <1>8, <2>1, LeastOf
<1>10. \A m \in a..(f - 1) : m \in S
  <2> SUFFICES ASSUME NEW m \in a..(f - 1), m \notin S PROVE FALSE
    OBVIOUS
  <2>1. m \in Nat /\ a < m /\ m < f
    BY <1>4, <1>9
  <2> QED
    BY <1>6, <1>9, <2>1
<1>11. f \in E
  <2>1. f \notin S /\ a < f /\ f <= Months
    BY <1>6, <1>7, <1>9
  <2>2. f - 1 \in a..(f - 1) /\ f \in 1..Months
    BY <1>1, <1>4, <1>9, <2>1
  <2> QED
    BY <1>5, <1>10, <2>1, <2>2
<1>12. PICK r : r = Min(E)
  OBVIOUS
<1>13. r \in E /\ r \in Nat /\ \A e \in E : r <= e
  <2>1. E \in SUBSET Nat /\ E # {}
    BY <1>1, <1>5, <1>11
  <2> QED
    BY <1>12, <2>1, LeastOf
<1>14. a < r /\ r <= f /\ r <= Months
  <2>1. r - 1 \in S /\ r <= Months
    BY <1>1, <1>5, <1>13
  <2> QED
    BY <1>4, <1>11, <1>13, <2>1
<1>15. \A m \in a..(r - 1) : m \in S
  BY <1>4, <1>9, <1>10, <1>13, <1>14
<1>16. RunEnd(S) = r
  BY <1>5, <1>12 DEF RunEnd
<1> QED
  BY <1>3, <1>4, <1>13, <1>14, <1>15, <1>16

-----------------------------------------------------------------------------
(* The shape of the cache: what a fetch hands on, what a save takes of it. *)

worldVars == <<world, cacheVars, dumpVars>>

\* An empty cache has the shape.
LEMMA InitShape == InitCaches => CacheShape
<1> SUFFICES ASSUME InitCaches PROVE CacheShape
  OBVIOUS
<1>1. /\ now = 0 /\ splits = 0 /\ listing \in Listings
      /\ chunk = << >> /\ partial = << >> /\ meta = Absent /\ call = Idle
  BY DEF InitCaches, InitWorld, InitCache
<1>2. DOMAIN chunk = {} /\ DOMAIN partial = {}
  BY <1>1
<1>3. call.pc = "idle"
  BY <1>1 DEF Idle
<1> QED
  BY <1>1, <1>2, <1>3 DEF CacheShape, Disk, Absent

(* Only the cache step changes the cache. *)
LEMMA WorldMoves ==
  ASSUME NextCaches \/ UNCHANGED worldVars, now \in Nat, splits \in Nat, listing \in Listings
  PROVE  /\ now' \in Nat /\ now <= now' /\ splits' \in Nat /\ splits <= splits'
         /\ listing' = listing /\ source' = source
         /\ UNCHANGED cacheVars \/ (IsCandles /\ CacheStep /\ UNCHANGED <<world, dumpVars>>)
BY DEF NextCaches, Outside, Tick, Split, Appear, world, worldVars

\* A set of numbers up to n that is not empty has a greatest one.
LEMMA GreatestOf ==
  ASSUME NEW n \in Nat, NEW S \in SUBSET (0..n), S # {}
  PROVE  Max(S) \in S /\ \A x \in S : x <= Max(S)
<1>1. PICK T : T = {n - x : x \in S}
  OBVIOUS
<1>2. \A x \in S : x \in Int /\ 0 <= x /\ x <= n
  OBVIOUS
<1>3. T \in SUBSET Nat /\ T # {}
  <2>1. ASSUME NEW y \in T PROVE y \in Nat
    BY <1>1, <1>2, <2>1
  <2>2. PICK x \in S : TRUE
    OBVIOUS
  <2>3. n - x \in T
    BY <1>1
  <2> QED
    BY <2>1, <2>3
<1>4. PICK l : l = Min(T)
  OBVIOUS
<1>5. l \in T /\ l \in Nat /\ \A y \in T : l <= y
  BY <1>3, <1>4, LeastOf
<1>6. PICK g \in S : l = n - g
  BY <1>1, <1>5
<1>7. ASSUME NEW x \in S PROVE x <= g /\ g >= x
  <2>1. n - x \in T
    BY <1>1
  <2>2. n - g <= n - x /\ x \in Int /\ g \in Int
    BY <1>2, <1>5, <1>6, <2>1
  <2> QED
    BY <2>2
<1>8. Max(S) \in S /\ \A x \in S : Max(S) >= x
  BY <1>6, <1>7 DEF Max
<1>9. \A x \in S : x <= Max(S)
  BY <1>2, <1>8
<1> QED
  BY <1>8, <1>9

(***************************************************************************)
(* A time data_available_until may say of a stock: the end of a session, or *)
(* that there is nothing yet.                                              *)
(***************************************************************************)
Boundary(t) == source = "stock" => t = 0 \/ \E x \in Closes : t = StartOf(x)

\* The last end of a session up to n.
LastEnd(n) == Max({0} \cup {StartOf(c) : c \in {d \in Closes : StartOf(d) <= n}})

\* It is one, and no session between it and n ends.
LEMMA LastEndIs ==
  ASSUME NEW n \in Nat
  PROVE  /\ LastEnd(n) \in Nat /\ LastEnd(n) <= n
         /\ LastEnd(n) = 0 \/ \E x \in Closes : LastEnd(n) = StartOf(x)
         /\ \A c \in Closes : StartOf(c) <= n => StartOf(c) <= LastEnd(n)
<1>1. PICK D : D = {0} \cup {StartOf(c) : c \in {d \in Closes : StartOf(d) <= n}}
  OBVIOUS
<1>2. \A c \in Closes : StartOf(c) \in Nat
  BY SessionsAssumption DEF StartOf
<1>3. D \in SUBSET (0..n) /\ D # {}
  BY <1>1, <1>2
<1>4. PICK l : l = Max(D)
  OBVIOUS
<1>5. l \in D /\ \A x \in D : x <= l
  BY <1>3, <1>4, GreatestOf
<1>6. LastEnd(n) = l
  BY <1>1, <1>4 DEF LastEnd
<1>7. l \in Nat /\ l <= n
  BY <1>3, <1>5
<1>8. l = 0 \/ \E x \in Closes : l = StartOf(x)
  BY <1>1, <1>5
<1>9. \A c \in Closes : StartOf(c) <= n => StartOf(c) <= l
  BY <1>1, <1>5
<1> QED
  BY <1>6, <1>7, <1>8, <1>9

\* data_available_until is the time, or the last end of a session.
LEMMA UntilIsTime ==
  ASSUME now \in Nat
  PROVE  /\ DataAvailableUntil \in Nat /\ DataAvailableUntil <= now
         /\ Boundary(DataAvailableUntil)
<1>1. CASE source # "stock"
  BY <1>1 DEF DataAvailableUntil, Boundary
<1>2. CASE source = "stock"
  <2>1. DataAvailableUntil = LastEnd(now)
    BY <1>2 DEF DataAvailableUntil, LastEnd
  <2>2. DataAvailableUntil \in Nat /\ DataAvailableUntil <= now
    BY <2>1, LastEndIs
  <2>3. DataAvailableUntil = 0 \/ \E x \in Closes : DataAvailableUntil = StartOf(x)
    BY <2>1, LastEndIs
  <2> QED
    BY <2>2, <2>3 DEF Boundary
<1> QED
  BY <1>1, <1>2

\* The steps that open a call preserve the shape.
LEMMA BeginShape ==
  ASSUME CacheShape, UNCHANGED world,
         \/ \E first, last \in MonthNumbers : first <= last /\ Request(first, last)
         \/ OnCacheOpen \/ DropStale \/ WriteMeta
  PROVE  CacheShape'
<1> USE DEF world
<1>1. CASE \E first, last \in MonthNumbers : first <= last /\ Request(first, last)
  <2>1. PICK first \in MonthNumbers, last \in MonthNumbers : Request(first, last)
    BY <1>1
  <2>2. call' = Call(first, last) /\ chunk' = chunk /\ partial' = partial /\ meta' = meta
    BY <2>1 DEF Request
  <2>3. InCall' /\ call'.pc = "hook"
    BY <2>2 DEF InCall, Call
  <2> QED
    BY <2>2, <2>3 DEF CacheShape, Disk
<1>2. CASE OnCacheOpen
  <2>1. InCall /\ chunk' = chunk /\ partial' = partial /\ meta' = meta
    BY <1>2 DEF OnCacheOpen, CacheShape, Idle
  <2>2. \E step \in {"classify", "mark", "drop"} :
          call' = [call EXCEPT !.latest = splits, !.pc = step]
    BY <1>2 DEF OnCacheOpen
  <2>3. InCall' /\ call'.pc \in {"classify", "mark", "drop"}
    BY <2>1, <2>2 DEF InCall, CacheShape
  <2> QED
    BY <2>1, <2>3 DEF CacheShape, Disk
<1>3. CASE DropStale
  <2>1. InCall /\ call.pc = "drop" /\ meta' = meta
    BY <1>3 DEF DropStale, CacheShape, Idle
  <2>2. CASE \E m \in DOMAIN chunk : chunk' = Without(chunk, m) /\ UNCHANGED <<partial, call>>
    BY <2>1, <2>2 DEF CacheShape, Disk, Without, Restrict, InCall
  <2>3. CASE \E m \in DOMAIN partial : partial' = Without(partial, m) /\ UNCHANGED <<chunk, call>>
    BY <2>1, <2>3 DEF CacheShape, Disk, Without, Restrict, InCall
  <2>4. CASE call' = [call EXCEPT !.pc = "mark"] /\ UNCHANGED <<chunk, partial>>
    <3>1. InCall' /\ call'.pc = "mark"
      BY <2>1, <2>4 DEF InCall
    <3> QED
      BY <2>1, <2>4, <3>1 DEF CacheShape, Disk
  <2> QED
    BY <1>3, <2>2, <2>3, <2>4 DEF DropStale
<1>4. CASE WriteMeta
  <2>1. InCall /\ chunk' = chunk /\ partial' = partial /\ meta' = call.latest
        /\ call' = [call EXCEPT !.pc = "classify"]
    BY <1>4 DEF WriteMeta, CacheShape, Idle
  <2>2. InCall' /\ call'.pc = "classify"
    BY <2>1 DEF InCall
  <2> QED
    BY <2>1, <2>2 DEF CacheShape, Disk, InCall
<1> QED
  BY <1>1, <1>2, <1>3, <1>4

\* So does the sorting of its months into kept, begun and missing.
LEMMA ClassifyShape ==
  ASSUME CacheShape, UNCHANGED world, Classify
  PROVE  CacheShape'
<1>1. InCall /\ chunk' = chunk /\ partial' = partial /\ meta' = meta
  BY DEF Classify, CacheShape, Idle
<1>2. PICK got : call' =
        [call EXCEPT !.pc = "fetch", !.until = DataAvailableUntil, !.got = got,
           !.delta = ((call.first..call.last) \ DOMAIN chunk) \cap DOMAIN partial,
           !.missing = ((call.first..call.last) \ DOMAIN chunk) \ DOMAIN partial]
  BY DEF Classify
<1>3. DataAvailableUntil \in Nat
  BY UntilIsTime DEF CacheShape
<1>4. \A m \in call.first..call.last : m \in MonthNumbers
  <2>1. call.first \in Nat /\ call.last \in Nat /\ call.last < Months /\ Months \in Nat
    BY <1>1, Sizes DEF InCall, MonthNumbers
  <2> QED
    BY <2>1 DEF MonthNumbers
<1>5. PICK until : until = DataAvailableUntil
  OBVIOUS
<1>6. PICK d : d = ((call.first..call.last) \ DOMAIN chunk) \cap DOMAIN partial
  OBVIOUS
<1>7. PICK r : r = ((call.first..call.last) \ DOMAIN chunk) \ DOMAIN partial
  OBVIOUS
<1>8. d \subseteq MonthNumbers /\ r \subseteq MonthNumbers /\ d \subseteq DOMAIN partial
  BY <1>4, <1>6, <1>7
<1>9. call' = [call EXCEPT !.pc = "fetch", !.until = until, !.got = got,
                           !.delta = d, !.missing = r]
  BY <1>2, <1>5, <1>6, <1>7
<1>10. InCall' /\ call'.pc = "fetch" /\ call'.delta = d
  BY <1>1, <1>3, <1>5, <1>8, <1>9 DEF InCall
<1> QED
  BY <1>1, <1>8, <1>10 DEF CacheShape, Disk, world

\* What one sequence and then another has at each place.
LEMMA ConcatIs ==
  ASSUME NEW T, NEW c \in Seq(T), NEW d \in Seq(T)
  PROVE  /\ c \o d \in Seq(T) /\ Len(c \o d) = Len(c) + Len(d)
         /\ DOMAIN (c \o d) = 1..(Len(c) + Len(d))
         /\ \A i \in 1..Len(c) : (c \o d)[i] = c[i]
         /\ \A i \in 1..Len(d) : (c \o d)[Len(c) + i] = d[i]
         /\ \A i \in DOMAIN (c \o d) :
              (\E j \in DOMAIN c : (c \o d)[i] = c[j]) \/ (\E j \in DOMAIN d : (c \o d)[i] = d[j])
<1>1. c \o d \in Seq(T) /\ Len(c \o d) = Len(c) + Len(d)
  BY ConcatProperties
<1>2. \A i \in 1..(Len(c) + Len(d)) :
        (c \o d)[i] = IF i <= Len(c) THEN c[i] ELSE d[i - Len(c)]
  BY ConcatProperties
<1>3. Len(c) \in Nat /\ Len(d) \in Nat /\ DOMAIN (c \o d) = 1..(Len(c) + Len(d))
      /\ DOMAIN c = 1..Len(c) /\ DOMAIN d = 1..Len(d)
  BY <1>1
<1>4. ASSUME NEW i \in 1..Len(d) PROVE (c \o d)[Len(c) + i] = d[i]
  <2>1. Len(c) + i \in 1..(Len(c) + Len(d)) /\ ~(Len(c) + i <= Len(c)) /\ (Len(c) + i) - Len(c) = i
    BY <1>3
  <2> QED
    BY <1>2, <2>1
<1>5. ASSUME NEW i \in 1..Len(c) PROVE (c \o d)[i] = c[i]
  BY <1>2, <1>3
<1>6. ASSUME NEW i \in DOMAIN (c \o d)
      PROVE  (\E j \in DOMAIN c : (c \o d)[i] = c[j]) \/ (\E j \in DOMAIN d : (c \o d)[i] = d[j])
  <2>1. CASE i <= Len(c)
    <3>1. i \in DOMAIN c
      BY <1>3, <2>1
    <3> QED
      BY <1>2, <1>3, <2>1, <3>1
  <2>2. CASE ~(i <= Len(c))
    <3>1. i - Len(c) \in DOMAIN d
      BY <1>3, <2>2
    <3> QED
      BY <1>2, <1>3, <2>2, <3>1
  <2> QED
    BY <2>1, <2>2
<1> QED
  BY <1>1, <1>3, <1>4, <1>5, <1>6

(***************************************************************************)
(* What a fetch hands to the saving of its months.                         *)
(***************************************************************************)
DeltaFetched(m, end, got, new) ==
  /\ m \in call.delta /\ m \in Nat /\ m < Months /\ end \in Int
  /\ end = (IF MonthStart(m + 1) <= call.until THEN MonthStart(m + 1) ELSE call.until)
  /\ new = IF DeltaStart(m) < end THEN GetCandles(DeltaStart(m), end) ELSE << >>
  /\ got = call.got \o (partial[m] \o new)
  /\ call' = [Save(partial[m] \o new, got, m, m + 1) EXCEPT !.delta = call.delta \ {m}]
  /\ unfound' = unfound \cup LeftOut(DeltaStart(m), end)
  /\ UNCHANGED <<chunk, partial, meta>> /\ InCall /\ call.pc = "fetch"

\* The same, of a run of months that have no file.
RunFetched(m, e, end, left) ==
  /\ m \in call.missing /\ e \in Nat /\ end \in Int
  /\ m \in Nat /\ m < e /\ e <= Months /\ call.delta = {}
  /\ \A x \in m..(e - 1) : x \in call.missing
  /\ end = (IF MonthStart(e) <= call.until THEN MonthStart(e) ELSE call.until)
  /\ left = call.missing \ (m..(e - 1))
  /\ \/ end <= MonthStart(m) /\ call' = [call EXCEPT !.missing = left]
     \/ /\ MonthStart(m) < end
        /\ \E got : /\ got = call.got \o GetCandles(MonthStart(m), end)
                    /\ call' = [Save(GetCandles(MonthStart(m), end), got, m, e)
                                  EXCEPT !.missing = left]
  /\ unfound' = unfound \cup LeftOut(MonthStart(m), end)
  /\ UNCHANGED <<chunk, partial, meta>> /\ InCall /\ call.pc = "fetch"

\* A fetch of a delta does.
LEMMA DeltaHands ==
  ASSUME CacheShape, FetchDelta
  PROVE  \E m, end, got, new : DeltaFetched(m, end, got, new)
<1>1. InCall /\ call.pc = "fetch" /\ call.delta # {}
  BY DEF FetchDelta, CacheShape, Idle
<1>2. \A x \in call.delta : x \in Nat /\ x < Months
  BY <1>1, Sizes DEF InCall, MonthNumbers
<1>3. PICK m : m = Min(call.delta)
  OBVIOUS
<1>4. m \in call.delta /\ m \in Nat /\ m < Months
  BY <1>1, <1>2, <1>3, LeastOf
<1>5. PICK end : end = Min({MonthStart(m + 1), call.until})
  OBVIOUS
<1>6. end \in Int
      /\ end = (IF MonthStart(m + 1) <= call.until THEN MonthStart(m + 1) ELSE call.until)
  <2>1. MonthStart(m + 1) \in Nat /\ call.until \in Nat
    BY <1>1, <1>4, MonthStartIs DEF InCall
  <2>2. PICK a, b : a = MonthStart(m + 1) /\ b = call.until
    OBVIOUS
  <2>3. end \in {a, b} /\ end <= a /\ end <= b
    <3>1. {a, b} \in SUBSET Nat /\ {a, b} # {}
      BY <2>1, <2>2
    <3>2. end = Min({a, b})
      BY <1>5, <2>2
    <3> QED
      BY <3>1, <3>2, LeastOf
  <2> QED
    BY <2>1, <2>2, <2>3
<1>7. PICK new : new = IF DeltaStart(m) < end THEN GetCandles(DeltaStart(m), end) ELSE << >>
  OBVIOUS
<1>8. call' = [Save(partial[m] \o new, call.got \o (partial[m] \o new), m, m + 1)
                 EXCEPT !.delta = call.delta \ {m}]
      /\ unfound' = unfound \cup LeftOut(DeltaStart(m), end)
      /\ UNCHANGED <<chunk, partial, meta>>
  BY <1>3, <1>5, <1>7 DEF FetchDelta
<1>9. PICK got : got = call.got \o (partial[m] \o new)
  OBVIOUS
<1>10. DeltaFetched(m, end, got, new)
  BY <1>1, <1>4, <1>6, <1>7, <1>8, <1>9 DEF DeltaFetched
<1> QED
  BY <1>10

\* A fetch of a run does.
LEMMA RunHands ==
  ASSUME CacheShape, FetchRun
  PROVE  \E m, e, end, left : RunFetched(m, e, end, left)
<1>1. InCall /\ call.pc = "fetch" /\ call.delta = {} /\ call.missing # {}
  BY DEF FetchRun, CacheShape, Idle
<1>2. PICK m, e : m = Min(call.missing) /\ e = RunEnd(call.missing)
  OBVIOUS
<1>3. /\ m \in call.missing /\ m \in Nat /\ e \in Nat /\ e <= Months /\ m < e
      /\ \A x \in m..(e - 1) : x \in call.missing
  BY <1>1, <1>2, RunEndIs DEF InCall
<1>5. PICK end : end = Min({MonthStart(e), call.until})
  OBVIOUS
<1>6. end \in Int /\ end = (IF MonthStart(e) <= call.until THEN MonthStart(e) ELSE call.until)
  <2>1. MonthStart(e) \in Nat /\ call.until \in Nat
    BY <1>1, <1>3, MonthStartIs DEF InCall
  <2>2. PICK a, b : a = MonthStart(e) /\ b = call.until
    OBVIOUS
  <2>3. end \in {a, b} /\ end <= a /\ end <= b
    <3>1. {a, b} \in SUBSET Nat /\ {a, b} # {}
      BY <2>1, <2>2
    <3>2. end = Min({a, b})
      BY <1>5, <2>2
    <3> QED
      BY <3>1, <3>2, LeastOf
  <2> QED
    BY <2>1, <2>2, <2>3
<1>7. PICK left : left = call.missing \ (m..(e - 1))
  OBVIOUS
<1>8. PICK candles : candles = GetCandles(MonthStart(m), end)
  OBVIOUS
<1>9. /\ call' = IF end <= MonthStart(m) THEN [call EXCEPT !.missing = left]
                 ELSE [Save(candles, call.got \o candles, m, e) EXCEPT !.missing = left]
      /\ unfound' = unfound \cup LeftOut(MonthStart(m), end)
      /\ UNCHANGED <<chunk, partial, meta>>
  BY <1>2, <1>5, <1>7, <1>8 DEF FetchRun
<1>10. MonthStart(m) \in Int
  BY <1>3, MonthStartIs
<1>11. \/ end <= MonthStart(m) /\ call' = [call EXCEPT !.missing = left]
       \/ /\ MonthStart(m) < end
          /\ \E got : /\ got = call.got \o candles
                      /\ call' = [Save(candles, got, m, e) EXCEPT !.missing = left]
  <2>1. CASE end <= MonthStart(m)
    BY <1>9, <2>1
  <2>2. CASE ~(end <= MonthStart(m))
    <3>1. call' = [Save(candles, call.got \o candles, m, e) EXCEPT !.missing = left]
      BY <1>9, <2>2
    <3>2. MonthStart(m) < end
      BY <1>6, <1>10, <2>2
    <3> QED
      BY <3>1, <3>2
  <2> QED
    BY <2>1, <2>2
<1>12. RunFetched(m, e, end, left)
  BY <1>1, <1>3, <1>6, <1>7, <1>8, <1>9, <1>11 DEF RunFetched
<1> QED
  BY <1>12

\* The call after such a fetch, field by field ...
LEMMA AfterDelta ==
  ASSUME InCall, NEW candles \in Seq(Candle), NEW got, NEW m \in Nat, NEW e \in Nat,
         NEW x, x \subseteq MonthNumbers,
         call' = [Save(candles, got, m, e) EXCEPT !.delta = x]
  PROVE  /\ InCall' /\ call'.pc = "save" /\ call'.month = m /\ call'.runEnd = e
         /\ call'.candles = candles /\ call'.got = got /\ call'.until = call.until
         /\ call'.first = call.first /\ call'.last = call.last
         /\ call'.delta = x /\ call'.missing = call.missing
<1>1. call' = [pc |-> "save", first |-> call.first, last |-> call.last,
               latest |-> call.latest, until |-> call.until,
               delta |-> x, missing |-> call.missing, got |-> got,
               candles |-> candles, month |-> m, runEnd |-> e]
  BY DEF InCall, Save
<1>2. /\ call'.pc = "save" /\ call'.month = m /\ call'.runEnd = e
      /\ call'.candles = candles /\ call'.got = got /\ call'.until = call.until
      /\ call'.first = call.first /\ call'.last = call.last /\ call'.latest = call.latest
      /\ call'.delta = x /\ call'.missing = call.missing
  BY <1>1
<1>3. call' = [pc |-> call'.pc, first |-> call'.first, last |-> call'.last,
               latest |-> call'.latest, until |-> call'.until,
               delta |-> call'.delta, missing |-> call'.missing, got |-> call'.got,
               candles |-> call'.candles, month |-> call'.month, runEnd |-> call'.runEnd]
  BY <1>1
<1>4. InCall'
  BY <1>2, <1>3 DEF InCall
<1> QED
  BY <1>2, <1>4

\* ... and after the other.
LEMMA AfterRun ==
  ASSUME InCall, NEW candles \in Seq(Candle), NEW got, NEW m \in Nat, NEW e \in Nat,
         NEW x, x \subseteq MonthNumbers,
         call' = [Save(candles, got, m, e) EXCEPT !.missing = x]
  PROVE  /\ InCall' /\ call'.pc = "save" /\ call'.month = m /\ call'.runEnd = e
         /\ call'.candles = candles /\ call'.got = got /\ call'.until = call.until
         /\ call'.first = call.first /\ call'.last = call.last
         /\ call'.missing = x /\ call'.delta = call.delta
<1>1. call' = [pc |-> "save", first |-> call.first, last |-> call.last,
               latest |-> call.latest, until |-> call.until,
               delta |-> call.delta, missing |-> x, got |-> got,
               candles |-> candles, month |-> m, runEnd |-> e]
  BY DEF InCall, Save
<1>2. /\ call'.pc = "save" /\ call'.month = m /\ call'.runEnd = e
      /\ call'.candles = candles /\ call'.got = got /\ call'.until = call.until
      /\ call'.first = call.first /\ call'.last = call.last /\ call'.latest = call.latest
      /\ call'.missing = x /\ call'.delta = call.delta
  BY <1>1
<1>3. call' = [pc |-> call'.pc, first |-> call'.first, last |-> call'.last,
               latest |-> call'.latest, until |-> call'.until,
               delta |-> call'.delta, missing |-> call'.missing, got |-> call'.got,
               candles |-> call'.candles, month |-> call'.month, runEnd |-> call'.runEnd]
  BY <1>1
<1>4. InCall'
  BY <1>2, <1>3 DEF InCall
<1> QED
  BY <1>2, <1>4

\* The fetches preserve the shape.
LEMMA FetchShape ==
  ASSUME CacheShape, IsCandles, UNCHANGED world, FetchDelta \/ FetchRun
  PROVE  CacheShape'
<1>0. now \in Nat /\ splits \in Nat /\ Disk /\ << >> \in Seq(Candle)
  BY DEF CacheShape
<1>1. CASE FetchDelta
  <2>0. PICK m, end, got, new : DeltaFetched(m, end, got, new)
    BY <1>1, DeltaHands
  <2>1. /\ m \in call.delta /\ m \in Nat /\ m < Months
        /\ new = IF DeltaStart(m) < end THEN GetCandles(DeltaStart(m), end) ELSE << >>
        /\ call' = [Save(partial[m] \o new, got, m, m + 1) EXCEPT !.delta = call.delta \ {m}]
        /\ UNCHANGED <<chunk, partial, meta>> /\ InCall /\ call.pc = "fetch"
    BY <2>0 DEF DeltaFetched
  <2>2. new \in Seq(Candle)
    BY <1>0, <2>1, GetCandlesIs
  <2>3. m \in DOMAIN partial /\ partial[m] \in Seq(Candle)
    BY <2>1 DEF CacheShape, Disk
  <2>4. PICK candles \in Seq(Candle) : candles = partial[m] \o new
    BY <2>2, <2>3, ConcatIs
  <2>5. call' = [Save(candles, got, m, m + 1) EXCEPT !.delta = call.delta \ {m}]
    BY <2>1, <2>4
  <2>6. InCall' /\ call'.pc = "save" /\ call'.delta = call.delta \ {m}
        /\ call'.month = m /\ call'.runEnd = m + 1
    <3>1. m + 1 \in Nat /\ (call.delta \ {m}) \subseteq MonthNumbers
      BY <2>1 DEF InCall
    <3> QED
      BY <2>1, <2>5, <3>1, AfterDelta
  <2>7. Months \in Nat
    BY Sizes
  <2> QED
    BY <2>1, <2>6, <2>7 DEF CacheShape, Disk, world, Saving
<1>2. CASE FetchRun
  <2>0. PICK m, e, end, left : RunFetched(m, e, end, left)
    BY <1>2, RunHands
  <2>1. /\ m \in Nat /\ e \in Nat /\ m < e /\ e <= Months /\ call.delta = {}
        /\ left \subseteq call.missing
        /\ \/ call' = [call EXCEPT !.missing = left]
           \/ \E got : call' = [Save(GetCandles(MonthStart(m), end), got, m, e)
                                  EXCEPT !.missing = left]
        /\ UNCHANGED <<chunk, partial, meta>> /\ InCall /\ call.pc = "fetch"
    BY <2>0 DEF RunFetched
  <2>2. CASE call' = [call EXCEPT !.missing = left]
    <3>1. InCall' /\ call'.pc = "fetch" /\ call'.delta = {}
      BY <2>1, <2>2 DEF InCall
    <3> QED
      BY <2>1, <3>1 DEF CacheShape, Disk, world
  <2>3. CASE \E got : call' = [Save(GetCandles(MonthStart(m), end), got, m, e)
                                        EXCEPT !.missing = left]
    <3>1. PICK candles \in Seq(Candle) : candles = GetCandles(MonthStart(m), end)
      BY <1>0, GetCandlesIs
    <3>2. PICK got : call' = [Save(candles, got, m, e) EXCEPT !.missing = left]
      BY <2>3, <3>1
    <3>3. InCall' /\ call'.pc = "save" /\ call'.delta = {}
          /\ call'.month = m /\ call'.runEnd = e
      <4>1. left \subseteq MonthNumbers
        BY <2>1 DEF InCall
      <4>2. InCall /\ m \in Nat /\ e \in Nat /\ call.delta = {}
        BY <2>1
      <4>3. InCall' /\ call'.pc = "save" /\ call'.delta = call.delta
            /\ call'.month = m /\ call'.runEnd = e
        BY <3>2, <4>1, <4>2, AfterRun
      <4> QED
        BY <4>2, <4>3
    <3> QED
      BY <2>1, <3>3 DEF CacheShape, Disk, world, Saving
  <2> QED
    BY <2>1, <2>2, <2>3
<1> QED
  BY <1>1, <1>2

(***************************************************************************)
(* One month is saved: as a chunk if it is over, and else what is closed.  *)
(***************************************************************************)
SavedAs(m, saved, step) ==
  /\ saved \in Seq(Candle) /\ call' = [call EXCEPT !.pc = step]
  /\ \/ /\ MonthStart(m + 1) <= call.until /\ step = "promote"
        /\ saved = OfMonth(call.candles, m)
        /\ chunk' = Written(chunk, m, saved) /\ partial' = partial
     \/ /\ call.until < MonthStart(m + 1) /\ step = "fetch"
        /\ saved = Closed(OfMonth(call.candles, m), call.until)
        /\ partial' = Written(partial, m, saved) /\ chunk' = chunk
  /\ \A j \in DOMAIN saved : \E i \in DOMAIN call.candles : saved[j] = call.candles[i]

\* Which a save of one month does.
LEMMA SaveMonthIs ==
  ASSUME CacheShape, SaveMonth
  PROVE  /\ InCall /\ call.pc = "save" /\ Saving /\ meta' = meta
         /\ call.month \in Nat /\ call.month \in MonthNumbers
         /\ MonthStart(call.month + 1) \in Nat
         /\ \E saved, step : SavedAs(call.month, saved, step)
<1>1. InCall /\ call.pc = "save" /\ meta' = meta
  BY DEF SaveMonth, CacheShape, Idle
<1>2. Saving
  BY <1>1 DEF CacheShape
<1>3. PICK m : m = call.month
  OBVIOUS
<1>4. m \in Nat /\ m < Months /\ m \in MonthNumbers /\ MonthStart(m + 1) \in Nat
  <2>1. m \in Nat /\ m < Months /\ Months \in Nat
    BY <1>1, <1>2, <1>3, Sizes DEF InCall, Saving
  <2>2. m \in MonthNumbers
    BY <2>1 DEF MonthNumbers
  <2>3. m + 1 \in Nat
    BY <2>1
  <2>4. MonthStart(m + 1) \in Nat
    BY <2>3, MonthStartIs
  <2> QED
    BY <2>1, <2>2, <2>4
<1>5. PICK mine : mine = OfMonth(call.candles, m)
  OBVIOUS
<1>6. mine \in Seq(Candle)
      /\ \A j \in DOMAIN mine : \E i \in DOMAIN call.candles : mine[j] = call.candles[i]
  BY <1>1, <1>5, SavedIs DEF InCall
<1>7. PICK done : done = Closed(mine, call.until)
  OBVIOUS
<1>8. done \in Seq(Candle) /\ \A j \in DOMAIN done : \E i \in DOMAIN mine : done[j] = mine[i]
  BY <1>6, <1>7, SavedIs
<1>9. \A j \in DOMAIN done : \E i \in DOMAIN call.candles : done[j] = call.candles[i]
  BY <1>6, <1>8
<1>10. CASE MonthStart(m + 1) <= call.until
  <2>1. call' = [call EXCEPT !.pc = "promote"] /\ chunk' = Written(chunk, m, mine)
        /\ partial' = partial
    BY <1>3, <1>5, <1>10 DEF SaveMonth
  <2>2. SavedAs(m, mine, "promote")
    BY <1>5, <1>6, <1>10, <2>1 DEF SavedAs
  <2> QED
    BY <1>1, <1>2, <1>3, <1>4, <2>2
<1>11. CASE ~(MonthStart(m + 1) <= call.until)
  <2>1. call' = [call EXCEPT !.pc = "fetch"] /\ partial' = Written(partial, m, done)
        /\ chunk' = chunk
    BY <1>3, <1>5, <1>7, <1>11 DEF SaveMonth
  <2>2. call.until < MonthStart(m + 1)
    BY <1>1, <1>4, <1>11 DEF InCall
  <2>3. SavedAs(m, done, "fetch")
    BY <1>5, <1>7, <1>8, <1>9, <2>1, <2>2 DEF SavedAs
  <2> QED
    BY <1>1, <1>2, <1>3, <1>4, <2>3
<1> QED
  BY <1>10, <1>11

\* A save preserves the shape.
LEMMA SaveShape ==
  ASSUME CacheShape, UNCHANGED world, SaveMonth
  PROVE  CacheShape'
<1>1. /\ InCall /\ call.pc = "save" /\ Saving /\ meta' = meta /\ call.month \in MonthNumbers
  BY SaveMonthIs
<1>2. PICK m, saved, step :
              /\ m = call.month /\ saved \in Seq(Candle) /\ call' = [call EXCEPT !.pc = step]
              /\ \/ step = "promote" /\ chunk' = Written(chunk, m, saved) /\ partial' = partial
                 \/ step = "fetch" /\ partial' = Written(partial, m, saved) /\ chunk' = chunk
  BY SaveMonthIs DEF SavedAs
<1>3. InCall' /\ call'.pc = step /\ call'.delta = call.delta
      /\ call'.month = call.month /\ call'.runEnd = call.runEnd
  BY <1>1, <1>2 DEF InCall
<1>4. Disk' /\ DOMAIN partial \subseteq DOMAIN partial'
  BY <1>1, <1>2 DEF CacheShape, Disk, Written
<1> QED
  BY <1>1, <1>2, <1>3, <1>4 DEF CacheShape, world, Saving

\* So do the promotion of a chunk and the ends of a call.
LEMMA RestShape ==
  ASSUME CacheShape, UNCHANGED world, Promote \/ Return \/ Raise \/ Crash
  PROVE  CacheShape'
<1>1. CASE Promote
  <2>1. InCall /\ call.pc = "promote" /\ Saving /\ chunk' = chunk /\ meta' = meta
        /\ partial' = Without(partial, call.month)
    BY <1>1 DEF Promote, CacheShape, Idle
  <2>2. PICK step : step = IF call.month + 1 < call.runEnd THEN "save" ELSE "fetch"
    OBVIOUS
  <2>3. call' = [call EXCEPT !.month = call.month + 1, !.pc = step]
    BY <1>1, <2>2 DEF Promote
  <2>4. InCall' /\ call'.pc = step /\ call'.delta = call.delta
        /\ call'.month = call.month + 1 /\ call'.runEnd = call.runEnd
    <3>1. call' = [pc |-> step, first |-> call.first, last |-> call.last,
               latest |-> call.latest, until |-> call.until,
               delta |-> call.delta, missing |-> call.missing, got |-> call.got,
               candles |-> call.candles, month |-> call.month + 1, runEnd |-> call.runEnd]
      BY <2>1, <2>3 DEF InCall
    <3>2. step \in {"save", "fetch"} /\ call.month + 1 \in Nat
      BY <2>1, <2>2 DEF InCall
    <3> QED
      BY <2>1, <3>1, <3>2 DEF InCall
  <2>5. Disk' /\ DOMAIN partial' = DOMAIN partial \ {call.month}
    BY <2>1 DEF CacheShape, Disk, Without, Restrict
  <2>6. call.delta \subseteq DOMAIN partial'
    BY <2>1, <2>5 DEF CacheShape, Saving
  <2>7. step = "save" => Saving'
    <3>1. call.month \in Nat /\ call.runEnd \in Nat
      BY <2>1 DEF InCall
    <3>2. step = "save" => call.month + 1 < call.runEnd
      BY <2>2
    <3> QED
      BY <2>1, <2>4, <3>1, <3>2 DEF Saving
  <2> QED
    BY <2>1, <2>2, <2>4, <2>5, <2>6, <2>7 DEF CacheShape, world
<1>2. CASE Return \/ Raise \/ Crash
  <2>1. call' = Idle /\ chunk' = chunk /\ partial' = partial /\ (meta' = meta \/ meta' = Torn)
    BY <1>2 DEF Return, Raise, Crash
  <2> QED
    BY <2>1 DEF CacheShape, Disk, world, Torn, Idle
<1> QED
  BY <1>1, <1>2

\* Every step does.
LEMMA NextShape ==
  ASSUME CacheShape, NextCaches \/ UNCHANGED worldVars
  PROVE  CacheShape'
<1>1. /\ now' \in Nat /\ splits' \in Nat /\ listing' = listing
      /\ UNCHANGED cacheVars \/ (IsCandles /\ CacheStep /\ UNCHANGED <<world, dumpVars>>)
  BY WorldMoves DEF CacheShape
<1>2. CASE UNCHANGED cacheVars
  BY <1>1, <1>2 DEF cacheVars, CacheShape, Disk, InCall, Saving
<1>3. CASE IsCandles /\ CacheStep /\ UNCHANGED world
  BY <1>3, BeginShape, ClassifyShape, FetchShape, SaveShape, RestShape DEF CacheStep
<1> QED
  BY <1>1, <1>2, <1>3

-----------------------------------------------------------------------------
(* One adjustment. *)

\* The steps that write no candles preserve AdjustInv.
LEMMA AdjustCalls ==
  ASSUME AdjustInv, CacheShape', IsCandles, UNCHANGED world, source = "stock",
         \/ \E first, last \in MonthNumbers : first <= last /\ Request(first, last)
         \/ OnCacheOpen \/ WriteMeta \/ Classify \/ Promote \/ Return \/ Raise \/ Crash
  PROVE  AdjustInv'
<1> USE DEF world
<1>0. meta \in Int /\ splits \in Nat
  BY DEF AdjustInv, CacheShape, Disk
<1>1. CASE \E first, last \in MonthNumbers : first <= last /\ Request(first, last)
  <2>1. call'.pc = "hook" /\ chunk' = chunk /\ partial' = partial /\ meta' = meta
    BY <1>1 DEF Request, Call
  <2> QED
    BY <2>1 DEF AdjustInv
<1>2. CASE OnCacheOpen
  <2>1. InCall /\ chunk' = chunk /\ partial' = partial /\ meta' = meta /\ call.pc = "hook"
    BY <1>2 DEF OnCacheOpen, AdjustInv, CacheShape, Idle
  <2>2. PICK step : step = IF meta = splits THEN "classify" ELSE IF meta = Absent THEN "mark" ELSE "drop"
    OBVIOUS
  <2>3. call' = [call EXCEPT !.latest = splits, !.pc = step]
    BY <1>2, <2>2 DEF OnCacheOpen
  <2>4. call'.pc = step /\ call'.latest = splits
    BY <2>1, <2>3 DEF InCall
  <2> QED
    BY <1>0, <2>1, <2>2, <2>4 DEF AdjustInv, Absent
<1>3. CASE WriteMeta
  <2>1. /\ InCall /\ chunk' = chunk /\ partial' = partial /\ meta' = call.latest
        /\ call.pc = "mark" /\ call' = [call EXCEPT !.pc = "classify"]
    BY <1>3 DEF WriteMeta, AdjustInv, CacheShape, Idle
  <2>2. call'.pc = "classify" /\ call.latest \in Nat
    BY <2>1 DEF InCall
  <2>3. DOMAIN chunk = {} /\ DOMAIN partial = {} /\ call.latest <= splits
    BY <2>1 DEF AdjustInv
  <2> QED
    BY <2>1, <2>2, <2>3 DEF AdjustInv, Absent
<1>4. CASE Classify
  <2>1. InCall /\ chunk' = chunk /\ partial' = partial /\ meta' = meta /\ call.pc = "classify"
    BY <1>4 DEF Classify, AdjustInv, CacheShape, Idle
  <2>2. call'.pc = "fetch"
    BY <1>4, <2>1 DEF Classify, InCall
  <2> QED
    BY <2>1, <2>2 DEF AdjustInv
<1>5. CASE Promote
  <2>1. InCall /\ call.pc = "promote" /\ chunk' = chunk /\ meta' = meta
        /\ partial' = Without(partial, call.month)
    BY <1>5 DEF Promote, AdjustInv, CacheShape, Idle
  <2>2. call'.pc \in {"save", "fetch"} /\ call'.candles = call.candles
    BY <1>5, <2>1 DEF Promote, InCall
  <2>3. /\ DOMAIN partial' \subseteq DOMAIN partial
        /\ \A m \in DOMAIN partial' : partial'[m] = partial[m]
    BY <2>1 DEF Without, Restrict
  <2>4. meta = splits => \A m \in DOMAIN partial' : AdjustedAs(partial'[m], splits)
    BY <2>3 DEF AdjustInv
  <2> QED
    BY <2>1, <2>2, <2>4 DEF AdjustInv, AdjustedAs
<1>6. CASE Return \/ Raise \/ Crash
  <2>1. call' = Idle /\ chunk' = chunk /\ partial' = partial /\ (meta' = meta \/ meta' = Torn)
    BY <1>6 DEF Return, Raise, Crash
  <2> QED
    BY <1>0, <2>1 DEF AdjustInv, Torn, Absent, Idle
<1> QED
  BY <1>1, <1>2, <1>3, <1>4, <1>5, <1>6

(***************************************************************************)
(* The steps that drop, fetch or write candles do: what is fetched is      *)
(* adjusted for all the splits there are at that moment.                   *)
(***************************************************************************)
LEMMA AdjustFiles ==
  ASSUME AdjustInv, CacheShape', IsCandles, UNCHANGED world, source = "stock",
         DropStale \/ FetchDelta \/ FetchRun \/ SaveMonth
  PROVE  AdjustInv'
<1> USE DEF world
<1>0. meta \in Int /\ splits \in Nat /\ now \in Nat /\ CacheShape
  BY DEF AdjustInv, CacheShape, Disk
<1>1. CASE DropStale
  <2>1. InCall /\ call.pc = "drop" /\ meta' = meta
    BY <1>1 DEF DropStale, AdjustInv, CacheShape, Idle
  <2>2. CASE \E m \in DOMAIN chunk : chunk' = Without(chunk, m) /\ UNCHANGED <<partial, call>>
    <3>1. /\ DOMAIN chunk' \subseteq DOMAIN chunk
          /\ \A m \in DOMAIN chunk' : chunk'[m] = chunk[m]
      BY <2>2 DEF Without, Restrict
    <3>2. meta = splits => \A m \in DOMAIN chunk' : AdjustedAs(chunk'[m], splits)
      BY <3>1 DEF AdjustInv
    <3> QED
      BY <2>1, <2>2, <3>2 DEF AdjustInv
  <2>3. CASE \E m \in DOMAIN partial : partial' = Without(partial, m) /\ UNCHANGED <<chunk, call>>
    <3>1. /\ DOMAIN partial' \subseteq DOMAIN partial
          /\ \A m \in DOMAIN partial' : partial'[m] = partial[m]
      BY <2>3 DEF Without, Restrict
    <3>2. meta = splits => \A m \in DOMAIN partial' : AdjustedAs(partial'[m], splits)
      BY <3>1 DEF AdjustInv
    <3> QED
      BY <2>1, <2>3, <3>2 DEF AdjustInv
  <2>4. CASE /\ DOMAIN chunk = {} /\ DOMAIN partial = {}
             /\ call' = [call EXCEPT !.pc = "mark"] /\ UNCHANGED <<chunk, partial>>
    <3>1. call'.pc = "mark" /\ call'.latest = call.latest
      BY <2>1, <2>4 DEF InCall
    <3> QED
      BY <2>1, <2>4, <3>1 DEF AdjustInv
  <2> QED
    BY <1>1, <2>2, <2>3, <2>4 DEF DropStale
<1>2. CASE FetchDelta
  <2>0. PICK m, end, got, new : DeltaFetched(m, end, got, new)
    BY <1>0, <1>2, DeltaHands
  <2>1. /\ m \in call.delta /\ m \in Nat /\ m < Months
        /\ new = IF DeltaStart(m) < end THEN GetCandles(DeltaStart(m), end) ELSE << >>
        /\ call' = [Save(partial[m] \o new, got, m, m + 1) EXCEPT !.delta = call.delta \ {m}]
        /\ UNCHANGED <<chunk, partial, meta>> /\ InCall /\ call.pc = "fetch"
    BY <2>0 DEF DeltaFetched
  <2>2. m \in DOMAIN partial /\ partial[m] \in Seq(Candle)
    BY <1>0, <2>1 DEF CacheShape, Disk
  <2>3. new \in Seq(Candle) /\ AdjustedAs(new, splits)
    BY <1>0, <2>1, GetCandlesIs DEF AdjustedAs
  <2>4. PICK candles \in Seq(Candle) : candles = partial[m] \o new
    BY <2>2, <2>3, ConcatIs
  <2>5. AdjustedAs(partial[m], splits) => AdjustedAs(candles, splits)
    BY <2>2, <2>3, <2>4, ConcatIs DEF AdjustedAs
  <2>6. call'.pc = "save" /\ call'.candles = candles
    <3>1. m + 1 \in Nat /\ (call.delta \ {m}) \subseteq MonthNumbers
      BY <2>1 DEF InCall
    <3> QED
      BY <2>1, <2>4, <3>1, AfterDelta
  <2> QED
    BY <2>1, <2>2, <2>5, <2>6 DEF AdjustInv
<1>3. CASE FetchRun
  <2>0. PICK m, e, end, left : RunFetched(m, e, end, left)
    BY <1>0, <1>3, RunHands
  <2>1. /\ m \in Nat /\ e \in Nat /\ m < e /\ e <= Months /\ call.delta = {}
        /\ left \subseteq call.missing
        /\ \/ call' = [call EXCEPT !.missing = left]
           \/ \E got : call' = [Save(GetCandles(MonthStart(m), end), got, m, e)
                                  EXCEPT !.missing = left]
        /\ UNCHANGED <<chunk, partial, meta>> /\ InCall /\ call.pc = "fetch"
    BY <2>0 DEF RunFetched
  <2>2. CASE call' = [call EXCEPT !.missing = left]
    <3>1. call'.pc = "fetch"
      BY <2>1, <2>2 DEF InCall
    <3> QED
      BY <2>1, <3>1 DEF AdjustInv
  <2>3. CASE \E got : call' = [Save(GetCandles(MonthStart(m), end), got, m, e)
                                        EXCEPT !.missing = left]
    <3>1. PICK candles \in Seq(Candle) : candles = GetCandles(MonthStart(m), end)
      BY <1>0, GetCandlesIs
    <3>2. AdjustedAs(candles, splits)
      BY <1>0, <3>1, GetCandlesIs DEF AdjustedAs
    <3>3. PICK got : call' = [Save(candles, got, m, e) EXCEPT !.missing = left]
      BY <2>3, <3>1
    <3>4. call'.pc = "save" /\ call'.candles = candles
      <4>1. left \subseteq MonthNumbers /\ InCall /\ m \in Nat /\ e \in Nat
        BY <2>1 DEF InCall
      <4> QED
        BY <3>3, <4>1, AfterRun
    <3> QED
      BY <2>1, <3>2, <3>4 DEF AdjustInv
  <2> QED
    BY <2>1, <2>2, <2>3
<1>4. CASE SaveMonth
  <2>1. InCall /\ call.pc = "save" /\ meta' = meta
    BY <1>0, <1>4, SaveMonthIs
  <2>2. PICK m, saved, step : m = call.month /\ SavedAs(m, saved, step)
    BY <1>0, <1>4, SaveMonthIs
  <2>3. call'.pc = step /\ step \in {"promote", "fetch"} /\ call'.candles = call.candles
    BY <2>1, <2>2 DEF InCall, SavedAs
  <2>4. AdjustedAs(call.candles, splits) => AdjustedAs(saved, splits)
    BY <2>2 DEF SavedAs, AdjustedAs
  <2>5. CASE step = "promote" /\ chunk' = Written(chunk, m, saved) /\ partial' = partial
    <3>1. meta = splits => \A n \in DOMAIN chunk' : AdjustedAs(chunk'[n], splits)
      BY <2>1, <2>4, <2>5 DEF AdjustInv, Written
    <3> QED
      BY <2>1, <2>3, <2>5, <3>1 DEF AdjustInv
  <2>6. CASE step = "fetch" /\ partial' = Written(partial, m, saved) /\ chunk' = chunk
    <3>1. meta = splits => \A n \in DOMAIN partial' : AdjustedAs(partial'[n], splits)
      BY <2>1, <2>4, <2>6 DEF AdjustInv, Written
    <3> QED
      BY <2>1, <2>3, <2>6, <3>1 DEF AdjustInv
  <2> QED
    BY <2>2, <2>5, <2>6 DEF SavedAs
<1> QED
  BY <1>1, <1>2, <1>3, <1>4

\* An empty cache satisfies it.
LEMMA InitAdjust == InitCaches => AdjustInv
<1> SUFFICES ASSUME InitCaches PROVE AdjustInv
  OBVIOUS
<1>1. /\ splits = 0 /\ chunk = << >> /\ partial = << >> /\ meta = Absent /\ call = Idle
  BY DEF InitCaches, InitWorld, InitCache
<1>2. DOMAIN chunk = {} /\ DOMAIN partial = {} /\ call.pc = "idle"
  BY <1>1 DEF Idle
<1> QED
  BY <1>1, <1>2, InitShape DEF AdjustInv, Absent

\* Every step preserves it: after a split the mark is old.
LEMMA NextAdjust ==
  ASSUME AdjustInv, NextCaches \/ UNCHANGED worldVars
  PROVE  AdjustInv'
<1>1. CacheShape /\ CacheShape'
  BY NextShape DEF AdjustInv
<1>2. /\ splits' \in Nat /\ splits <= splits' /\ source' = source /\ meta \in Int /\ splits \in Nat
      /\ UNCHANGED cacheVars \/ (IsCandles /\ CacheStep /\ UNCHANGED world)
  BY <1>1, WorldMoves DEF CacheShape, Disk
<1>3. CASE source # "stock"
  BY <1>1, <1>2, <1>3 DEF AdjustInv
<1>4. CASE UNCHANGED cacheVars /\ source = "stock"
  <2>1. call' = call /\ meta' = meta /\ chunk' = chunk /\ partial' = partial
    BY <1>4 DEF cacheVars
  <2>2. meta <= splits /\ (call.pc \in {"drop", "mark"} => call.latest <= splits)
    BY <1>4 DEF AdjustInv
  <2>3. meta <= splits' /\ (meta = splits' => splits' = splits)
    BY <1>2, <2>2
  <2>4. call.pc \in {"drop", "mark"} => call.latest <= splits'
    BY <1>1, <1>2, <2>2 DEF CacheShape, InCall, Idle
  <2> QED
    BY <1>1, <1>2, <1>4, <2>1, <2>3, <2>4 DEF AdjustInv
<1>5. CASE IsCandles /\ CacheStep /\ UNCHANGED world /\ source = "stock"
  BY <1>1, <1>5, AdjustCalls, AdjustFiles DEF CacheStep
<1> QED
  BY <1>2, <1>3, <1>4, <1>5

(***************************************************************************)
(* The files of a stock never mix two adjustments: for any calendar and    *)
(* any number of splits, in any step of any call, and after a call that    *)
(* failed or died.                                                         *)
(***************************************************************************)
THEOREM AdjustmentsNeverMix == SpecCaches => []NoMixedAdjustment
<1>1. InitCaches => AdjustInv
  BY InitAdjust
<1>2. AdjustInv /\ [NextCaches]_<<world, cacheVars, dumpVars>> => AdjustInv'
  BY NextAdjust DEF worldVars
<1>3. AdjustInv => NoMixedAdjustment
  BY DEF AdjustInv, NoMixedAdjustment, AdjustedAs
<1> QED
  BY <1>1, <1>2, <1>3, PTL DEF SpecCaches

-----------------------------------------------------------------------------
(* Sequences of candles in the order of their slots. *)

(* c holds a candle of each slot of A, in ascending order. *)
InOrder(c, A) ==
  /\ \A i \in DOMAIN c : c[i].slot \in A
  /\ \A k \in A : \E i \in DOMAIN c : c[i].slot = k
  /\ \A i, j \in DOMAIN c : i < j => c[i].slot < c[j].slot

\* To be in order is to have the slots ascending.
LEMMA InOrderIs ==
  ASSUME NEW c \in Seq(Candle), NEW A \in SUBSET Slots
  PROVE  SlotsIn(c) = Ascending(A) <=> InOrder(c, A)
<1>1. NumSlots \in Nat /\ A \in SUBSET (0..NumSlots)
  BY SlotCount
<1>2. PICK s : s = SlotsIn(c)
  OBVIOUS
<1>3. /\ Len(c) \in Nat /\ DOMAIN c = 1..Len(c) /\ DOMAIN s = 1..Len(c)
      /\ s = [i \in 1..Len(c) |-> s[i]] /\ \A i \in 1..Len(c) : s[i] = c[i].slot
  BY <1>2 DEF SlotsIn
<1>4. ASSUME s = Ascending(A) PROVE InOrder(c, A)
  <2>1. /\ Cardinality(A) \in Nat /\ DOMAIN s = 1..Cardinality(A)
        /\ \A i \in 1..Cardinality(A) : s[i] \in A
        /\ \A k \in A : Rank(A, k) \in 1..Cardinality(A) /\ s[Rank(A, k)] = k
        /\ Rising(s)
    BY <1>1, <1>4, AscendingIs
  <2>2. \A k \in A : \E i \in DOMAIN c : c[i].slot = k
    BY <1>3, <2>1
  <2>3. Cardinality(A) = Len(c)
    BY <1>3, <2>1
  <2>4. \A i \in DOMAIN c : c[i].slot \in A
    BY <1>3, <2>1
  <2>5. \A i, j \in DOMAIN c : i < j => c[i].slot < c[j].slot
    BY <1>3, <2>1 DEF Rising
  <2> QED
    BY <2>2, <2>4, <2>5 DEF InOrder
<1>5. ASSUME InOrder(c, A) PROVE s = Ascending(A)
  <2>1. s \in [1..Len(c) -> A]
    BY <1>3, <1>5 DEF InOrder
  <2>2. Rising(s)
    BY <1>3, <1>5 DEF InOrder, Rising
  <2>3. \A k \in A : \E i \in 1..Len(c) : s[i] = k
    BY <1>3, <1>5 DEF InOrder
  <2> QED
    BY <1>1, <1>3, <2>1, <2>2, <2>3, AscendingUnique
<1> QED
  BY <1>2, <1>4, <1>5

\* A part of the slots, chosen place by place.
LEMMA InOrderAt ==
  ASSUME NEW c \in Seq(Candle), NEW A \in SUBSET Slots, NEW K \in SUBSET (DOMAIN c),
         NEW B \in SUBSET A, InOrder(c, A),
         \A i \in DOMAIN c : i \in K <=> c[i].slot \in B
  PROVE  At(c, K) \in Seq(Candle) /\ InOrder(At(c, K), B)
<1>1. Len(c) \in Nat /\ DOMAIN c = 1..Len(c)
  OBVIOUS
<1>2. K \in SUBSET (0..Len(c))
  BY <1>1
<1>3. PICK a, n : a = Ascending(K) /\ n = Cardinality(K)
  OBVIOUS
<1>4. /\ n \in Nat /\ DOMAIN a = 1..n /\ \A i \in 1..n : a[i] \in K
      /\ \A k \in K : Rank(K, k) \in 1..n /\ a[Rank(K, k)] = k
      /\ Rising(a)
  BY <1>1, <1>2, <1>3, AscendingIs
<1>5. PICK d : d = At(c, K)
  OBVIOUS
<1>6. d \in Seq(Candle) /\ DOMAIN d = 1..n /\ \A i \in 1..n : d[i] = c[a[i]]
  BY <1>3, <1>5, AtIs
<1>7. \A i \in DOMAIN d : d[i].slot \in B
  BY <1>4, <1>6
<1>8. ASSUME NEW k \in B PROVE \E i \in DOMAIN d : d[i].slot = k
  <2>1. PICK j \in DOMAIN c : c[j].slot = k
    BY DEF InOrder
  <2>2. j \in K
    BY <2>1
  <2> QED
    BY <1>4, <1>6, <2>1, <2>2
<1>9. ASSUME NEW i \in DOMAIN d, NEW j \in DOMAIN d, i < j PROVE d[i].slot < d[j].slot
  <2>1. a[i] < a[j] /\ a[i] \in DOMAIN c /\ a[j] \in DOMAIN c
    BY <1>4, <1>6, <1>9 DEF Rising
  <2> QED
    BY <1>6, <2>1 DEF InOrder
<1> QED
  BY <1>5, <1>6, <1>7, <1>8, <1>9 DEF InOrder

\* Slots that come after those of the first sequence.
LEMMA InOrderConcat ==
  ASSUME NEW c \in Seq(Candle), NEW d \in Seq(Candle), NEW A \in SUBSET Slots, NEW B \in SUBSET Slots,
         InOrder(c, A), InOrder(d, B), \A j \in A, k \in B : j < k
  PROVE  InOrder(c \o d, A \cup B)
<1>1. PICK s : s = c \o d
  OBVIOUS
<1>2. PICK m, n : m = Len(c) /\ n = Len(d)
  OBVIOUS
<1>3. /\ m \in Nat /\ n \in Nat /\ DOMAIN c = 1..m /\ DOMAIN d = 1..n /\ DOMAIN s = 1..(m + n)
      /\ \A i \in 1..m : s[i] = c[i]
      /\ \A i \in 1..n : s[m + i] = d[i]
  BY <1>1, <1>2, ConcatIs
<1>4. \A i \in DOMAIN s : i \in 1..m \/ (i - m \in 1..n /\ m + (i - m) = i)
  BY <1>3
<1>5. \A i \in DOMAIN s : \/ i \in 1..m /\ s[i] = c[i]
                          \/ i - m \in 1..n /\ s[i] = d[i - m]
  <2> SUFFICES ASSUME NEW i \in DOMAIN s, i \notin 1..m PROVE i - m \in 1..n /\ s[i] = d[i - m]
    BY <1>3
  <2>1. i - m \in 1..n /\ m + (i - m) = i
    BY <1>4
  <2>2. s[m + (i - m)] = d[i - m]
    BY <1>3, <2>1
  <2> QED
    BY <2>1, <2>2
<1>6. \A i \in DOMAIN s : s[i].slot \in A \cup B
  BY <1>3, <1>5 DEF InOrder
<1>7. ASSUME NEW k \in A \cup B PROVE \E i \in DOMAIN s : s[i].slot = k
  <2>1. CASE k \in A
    <3>1. PICK j \in 1..m : c[j].slot = k
      BY <1>3, <2>1 DEF InOrder
    <3>2. j \in DOMAIN s
      BY <1>3
    <3> QED
      BY <1>3, <3>1, <3>2
  <2>2. CASE k \in B
    <3>1. PICK j \in 1..n : d[j].slot = k
      BY <1>3, <2>2 DEF InOrder
    <3>2. m + j \in DOMAIN s
      BY <1>3
    <3> QED
      BY <1>3, <3>1, <3>2
  <2> QED
    BY <2>1, <2>2
<1>8. ASSUME NEW i \in DOMAIN s, NEW j \in DOMAIN s, i < j PROVE s[i].slot < s[j].slot
  <2>0. i \in Int /\ j \in Int
    BY <1>3
  <2>1. CASE i \in 1..m /\ j \in 1..m
    BY <1>3, <1>8, <2>1 DEF InOrder
  <2>2. CASE i \in 1..m /\ j \notin 1..m
    <3>1. s[i].slot \in A /\ s[j].slot \in B
      BY <1>3, <1>5, <2>2 DEF InOrder
    <3> QED
      BY <3>1
  <2>3. CASE i \notin 1..m
    <3>1. j \notin 1..m
      BY <1>3, <1>8, <2>0, <2>3
    <3>2. i - m \in 1..n /\ s[i] = d[i - m] /\ j - m \in 1..n /\ s[j] = d[j - m]
      BY <1>5, <2>3, <3>1
    <3>3. i - m < j - m
      BY <1>3, <1>8, <2>0
    <3> QED
      BY <1>3, <3>2, <3>3 DEF InOrder
  <2> QED
    BY <2>1, <2>2, <2>3
<1> QED
  BY <1>1, <1>6, <1>7, <1>8 DEF InOrder

-----------------------------------------------------------------------------
(* What the sources give. *)

(* The slots that exist from one time to another. *)
Span(from, to) == {k \in Existing(Slots) : from <= StartOf(k) /\ StartOf(k) < to}

(* With a slot of X the slots of its month that precede it are in X.        *)
Gapless(X, from) ==
  \A g \in X, k \in Certain(Slots) :
    from <= StartOf(k) /\ MonthOf(k) = MonthOf(g) /\ k <= g => k \in X

(***************************************************************************)
(* X is what a fetch of [from, to) may give: nothing else, everything that *)
(* is certain but for what is of these days and had no file, and no month  *)
(* without its beginning.                                                  *)
(***************************************************************************)
Fits(X, from, to, days) ==
  /\ \A k \in X : k \in Span(from, to)
  /\ \A k \in Certain(Slots) :
       from <= StartOf(k) /\ StartOf(k) < to /\ (source = "vision" => DayOf(k) \notin days)
         => k \in X
  /\ Gapless(X, from)

(* A stock's X runs to the end of a session.                               *)
AtCloses(X) == source = "stock" => \A g \in X : \E h \in X : g <= h /\ h + 1 \in Closes

(* A fetch that starts at "from" cuts no session of those that opened in    *)
(* the month.                                                              *)
CutsNone(from) ==
  source = "stock" =>
    \A o \in Opens, k \in Slots :
      InSession(o, k) /\ MonthOf(o) = MonthOf(k) /\ from <= StartOf(k) => from <= StartOf(o)

\* What is certain exists, and what exists is a slot of the listing or later.
LEMMA CertainIs ==
  /\ \A S \in SUBSET Slots : \A k : /\ k \in Existing(S) <=> k \in S /\ k \in Existing(Slots)
                                    /\ k \in Certain(S) <=> k \in S /\ k \in Certain(Slots)
  /\ \A k \in Certain(Slots) : k \in Existing(Slots)
  /\ \A k \in Existing(Slots) :
       k \in Slots /\ k \in Nat /\ StartOf(k) = 2 * k /\ EndOf(k) = 2 * k + 2 /\ k >= listing
<1>1. \A k \in Existing(Slots) : k \in Slots /\ k >= listing
  BY DEF Existing
<1>2. \A k \in Slots : k \in Nat /\ StartOf(k) = 2 * k /\ EndOf(k) = 2 * k + 2
  BY SlotCount DEF Slots, StartOf, EndOf
<1>3. \A S \in SUBSET Slots : \A k : k \in Existing(S) <=> k \in S /\ k \in Existing(Slots)
  BY DEF Existing
<1>4. \A S \in SUBSET Slots : \A k : k \in Certain(S) <=> k \in S /\ k \in Certain(Slots)
  BY <1>3 DEF Certain
<1>5. \A k \in Certain(Slots) : k \in Existing(Slots)
  BY DEF Certain
<1> QED
  BY <1>1, <1>2, <1>3, <1>4, <1>5

\* The last month ends with the last slot.
LEMMA EndOfMonths ==
  MonthStart(Months) = 2 * NumSlots /\ MonthStart(Months) = DayStart(Months * DaysPerMonth)
<1>1. PICK h : h = Months * DaysPerMonth
  OBVIOUS
<1>2. h \in Nat /\ DaysPerMonth * Months = h /\ NumSlots = h * SlotsPerDay /\ SlotsPerDay \in Nat
  BY <1>1, Sizes DEF NumSlots
<1>3. SlotsPerDay * h = h * SlotsPerDay /\ DayStart(h) = 2 * (SlotsPerDay * h)
  BY <1>2, DayStartIs
<1> QED
  BY <1>1, <1>2, <1>3 DEF MonthStart

\* The times of a slot, and the day and month it lies in.
LEMMA SlotIs ==
  ASSUME NEW k \in Slots
  PROVE  /\ k \in Nat /\ k < NumSlots /\ StartOf(k) \in Nat /\ StartOf(k) = 2 * k
         /\ EndOf(k) = StartOf(k) + 2
         /\ DayOf(k) \in Days /\ MonthOf(k) \in MonthNumbers
         /\ DayStart(DayOf(k)) <= StartOf(k) /\ EndOf(k) <= DayStart(DayOf(k) + 1)
         /\ MonthStart(MonthOf(k)) <= StartOf(k) /\ EndOf(k) <= MonthStart(MonthOf(k) + 1)
<1>1. k \in Nat /\ k < NumSlots /\ NumSlots \in Nat
  BY SlotCount DEF Slots
<1>2. StartOf(k) \in Nat /\ StartOf(k) = 2 * k /\ EndOf(k) = StartOf(k) + 2
  BY <1>1 DEF StartOf, EndOf
<1>3. /\ DayOf(k) \in Nat /\ DayStart(DayOf(k)) <= StartOf(k) /\ EndOf(k) <= DayStart(DayOf(k) + 1)
  <2>1. PICK d : d = DayOf(k)
    OBVIOUS
  <2>2. d \in Nat
    BY <1>1, <2>1, DayOfIs
  <2> QED
    BY <1>1, <2>1, <2>2, DayOfIs
<1>4. /\ MonthOf(k) \in Nat /\ MonthStart(MonthOf(k)) <= StartOf(k)
      /\ EndOf(k) <= MonthStart(MonthOf(k) + 1)
  <2>1. PICK m : m = MonthOf(k)
    OBVIOUS
  <2>2. m \in Nat
    BY <1>1, <2>1, MonthOfIs
  <2> QED
    BY <1>1, <2>1, <2>2, MonthOfIs
<1>5. MonthStart(Months) = 2 * NumSlots /\ MonthStart(Months) = DayStart(Months * DaysPerMonth)
  BY EndOfMonths
<1>6. EndOf(k) <= MonthStart(Months) /\ StartOf(k) < MonthStart(Months)
  BY <1>1, <1>2, <1>5
<1>7. DayOf(k) \in Days
  <2>1. PICK h : h = Months * DaysPerMonth
    OBVIOUS
  <2>2. h \in Nat
    BY <2>1, Sizes
  <2>3. DayStart(DayOf(k)) \in Int /\ DayStart(h) \in Int
    BY <1>3, <2>2, DayStartIs
  <2>4. DayStart(DayOf(k)) < DayStart(h)
    BY <1>2, <1>3, <1>5, <1>6, <2>1, <2>3
  <2>5. DayOf(k) < h
    BY <1>3, <2>2, <2>4, DayStartGrows
  <2> QED
    BY <1>3, <2>1, <2>2, <2>5 DEF Days
<1>8. MonthOf(k) \in MonthNumbers
  <2>1. Months \in Nat
    BY Sizes
  <2>2. MonthStart(MonthOf(k)) \in Int /\ MonthStart(Months) \in Int
    BY <1>4, <2>1, MonthStartIs
  <2>3. MonthStart(MonthOf(k)) < MonthStart(Months)
    BY <1>2, <1>4, <1>6, <2>2
  <2>4. MonthOf(k) < Months
    BY <1>4, <2>1, <2>3, MonthStartGrows
  <2> QED
    BY <1>4, <2>1, <2>4 DEF MonthNumbers
<1> QED
  BY <1>1, <1>2, <1>3, <1>4, <1>7, <1>8

\* A slot lies in a month if it starts in it.
LEMMA InMonth ==
  ASSUME NEW m \in Int, NEW k \in Nat
  PROVE  MonthOf(k) = m <=> MonthStart(m) <= StartOf(k) /\ StartOf(k) < MonthStart(m + 1)
<1>1. MonthStart(m + 1) \in Int /\ \E h \in Int : MonthStart(m + 1) = 2 * h
  <2>1. m + 1 \in Int
    OBVIOUS
  <2> QED
    BY <2>1, MonthStartIs
<1>2. MonthOf(k) = m <=> MonthStart(m) <= StartOf(k) /\ EndOf(k) <= MonthStart(m + 1)
  BY MonthOfIs
<1>3. StartOf(k) = 2 * k /\ EndOf(k) = 2 * k + 2
  BY DEF StartOf, EndOf
<1>4. StartOf(k) < MonthStart(m + 1) <=> EndOf(k) <= MonthStart(m + 1)
  BY <1>1, <1>3
<1> QED
  BY <1>2, <1>4

\* The slots of a month are those from its start to the next.
LEMMA MonthIsSpan ==
  ASSUME NEW m \in MonthNumbers
  PROVE  Existing(SlotsOf(m)) = Span(MonthStart(m), MonthStart(m + 1))
<1>1. m \in Int
  BY Sizes DEF MonthNumbers
<1>2. SlotsOf(m) \in SUBSET Slots
  BY DEF SlotsOf
<1>3. \A k : k \in Existing(SlotsOf(m)) <=> k \in SlotsOf(m) /\ k \in Existing(Slots)
  BY <1>2, CertainIs
<1>4. \A k \in Existing(Slots) :
        k \in SlotsOf(m) <=> MonthStart(m) <= StartOf(k) /\ StartOf(k) < MonthStart(m + 1)
  BY <1>1, CertainIs, InMonth DEF SlotsOf
<1>5. \A k : k \in Existing(SlotsOf(m)) <=> k \in Span(MonthStart(m), MonthStart(m + 1))
  BY <1>3, <1>4 DEF Span
<1> QED
  BY <1>5

\* The months start one after the other.
LEMMA MonthStartsIn ==
  ASSUME NEW m \in Int, NEW n \in Int, m <= n
  PROVE  MonthStart(m) \in Int /\ MonthStart(n) \in Int /\ MonthStart(m) <= MonthStart(n)
<1>1. MonthStart(m) \in Int /\ MonthStart(n) \in Int
  BY MonthStartIs
<1>2. m = n \/ m < n
  OBVIOUS
<1>3. m < n => MonthStart(m) < MonthStart(n)
  BY MonthStartGrows
<1> QED
  BY <1>1, <1>2, <1>3

\* A fetch may start with a month ...
LEMMA MonthCutsNone ==
  ASSUME NEW m \in Int
  PROVE  CutsNone(MonthStart(m))
<1> SUFFICES ASSUME NEW o \in Opens, NEW k \in Slots, MonthOf(o) = MonthOf(k),
                    MonthStart(m) <= StartOf(k)
             PROVE  MonthStart(m) <= StartOf(o)
  BY DEF CutsNone
<1>1. o \in Nat /\ k \in Nat
  BY SessionsAssumption, SlotCount DEF Slots
<1>2. PICK n : n = MonthOf(k) /\ n \in Nat
  BY <1>1, MonthOfIs
<1>3. /\ MonthStart(n) <= StartOf(o) /\ StartOf(k) < MonthStart(n + 1)
      /\ StartOf(o) \in Int /\ StartOf(k) \in Int
  BY <1>1, <1>2, InMonth DEF StartOf
<1>4. MonthStart(m) \in Int /\ MonthStart(n) \in Int /\ MonthStart(n + 1) \in Int
  BY <1>2, MonthStartIs
<1>5. m < n + 1
  <2>1. MonthStart(m) < MonthStart(n + 1)
    BY <1>3, <1>4
  <2> QED
    BY <1>2, <2>1, MonthStartGrows
<1>6. MonthStart(m) <= MonthStart(n)
  BY <1>2, <1>5, MonthStartsIn
<1> QED
  BY <1>3, <1>4, <1>6

\* ... or where a session has ended.
LEMMA CloseCutsNone ==
  ASSUME NEW x \in Closes
  PROVE  CutsNone(StartOf(x))
<1> SUFFICES ASSUME NEW o \in Opens, NEW k \in Slots, InSession(o, k), StartOf(x) <= StartOf(k)
             PROVE  StartOf(x) <= StartOf(o)
  BY DEF CutsNone
<1>1. o \in Nat /\ k \in Nat /\ x \in Nat
  BY SessionsAssumption, SlotCount DEF Slots
<1>2. x <= k
  BY <1>1 DEF StartOf
<1>3. x <= o
  BY <1>1, <1>2 DEF InSession
<1> QED
  BY <1>1, <1>3 DEF StartOf

\* A session that opens after a time opens on its day or later.
LEMMA DateBefore ==
  ASSUME NEW t \in Nat, NEW o \in Nat, t <= StartOf(o)
  PROVE  DateOf(t) <= DayOf(o)
<1>1. PICK n : n = 2 * SlotsPerDay /\ n \in Nat \ {0}
  BY Sizes
<1>2. PICK d : d = DateOf(t) /\ d \in Int /\ d = t \div n
  BY <1>1, SMTT(30) DEF DateOf
<1>3. n * d <= t
  BY <1>1, <1>2, QuotientIs
<1>4. DayStart(d) = n * d /\ DayStart(d) \in Int
  BY <1>1, <1>2, DayStartIs DEF DayStart
<1>5. PICK e : e = DayOf(o) /\ e \in Nat
  BY DayOfIs
<1>6. EndOf(o) <= DayStart(e + 1) /\ DayStart(e + 1) \in Int
  <2>1. EndOf(o) <= DayStart(e + 1)
    BY <1>5, DayOfIs
  <2> QED
    BY <1>5, <2>1, DayStartIs
<1>7. DayStart(d) < DayStart(e + 1)
  BY <1>3, <1>4, <1>6 DEF StartOf, EndOf
<1>8. d < e + 1
  BY <1>2, <1>5, <1>7, DayStartGrows
<1> QED
  BY <1>2, <1>5, <1>8

\* REST gives the span.
LEMMA RestFits ==
  ASSUME source = "rest", NEW from \in Int, NEW to \in Int, NEW days
  PROVE  Fits(Within(from, to), from, to, days)
<1>1. \A k : k \in Within(from, to) <=> k \in Span(from, to)
  BY DEF Within, Span, Existing
<1>2. \A k \in Certain(Slots) : from <= StartOf(k) /\ StartOf(k) < to => k \in Within(from, to)
  BY <1>1, CertainIs DEF Span
<1>3. Gapless(Within(from, to), from)
  <2> SUFFICES ASSUME NEW g \in Within(from, to), NEW k \in Certain(Slots),
                      from <= StartOf(k), k <= g
               PROVE  k \in Within(from, to)
    BY DEF Gapless
  <2>1. g \in Nat /\ StartOf(g) = 2 * g /\ StartOf(g) < to /\ k \in Nat /\ StartOf(k) = 2 * k
    BY <1>1, CertainIs DEF Span
  <2>2. StartOf(k) < to
    BY <2>1
  <2> QED
    BY <1>2, <2>2
<1> QED
  BY <1>1, <1>2, <1>3 DEF Fits

\* The dump files give whole months, or nothing of one that has no file.
LEMMA VisionFits ==
  ASSUME source = "vision", NEW from \in Int, NEW to \in Int
  PROVE  Fits(VisionSlots(from, to), from, to, LeftOut(from, to))
<1>1. \A k : k \in Within(from, to) <=> k \in Span(from, to)
  BY DEF Within, Span, Existing
<1>2. \A k : k \in VisionSlots(from, to) <=> k \in Span(from, to) /\ MonthOf(k) \notin Skipped(from, to)
  BY <1>1 DEF VisionSlots
<1>3. ASSUME NEW k \in Span(from, to), DayOf(k) \notin LeftOut(from, to)
      PROVE  k \in VisionSlots(from, to)
  <2> SUFFICES ASSUME MonthOf(k) \in Skipped(from, to) PROVE FALSE
    BY <1>2
  <2>1. /\ k \in Slots /\ from <= StartOf(k) /\ StartOf(k) < to /\ StartOf(k) = 2 * k /\ k \in Nat
    BY CertainIs DEF Span
  <2>2. PICK d, m : d = DayOf(k) /\ m = MonthOf(k)
    OBVIOUS
  <2>3. d \in Days /\ DayStart(d) <= StartOf(k) /\ EndOf(k) <= DayStart(d + 1) /\ m \in MonthNumbers
        /\ EndOf(k) = StartOf(k) + 2
    BY <2>1, <2>2, SlotIs
  <2>4. d \in Nat
    BY <2>1, <2>2, DayOfIs
  <2>5. DayStart(d) < to /\ from < DayStart(d + 1)
    <3>1. DayStart(d) \in Int /\ DayStart(d + 1) \in Int
      BY <2>4, DayStartIs
    <3> QED
      BY <2>1, <2>3, <3>1
  <2>6. d \in DaysAsked(m, from, to)
    BY <2>2, <2>3, <2>5 DEF DaysAsked, MonthOf
  <2>7. NoFile(m, from, to) /\ m \in MonthNumbers
    BY <2>2, <2>3 DEF Skipped
  <2>8. from < to
    BY <2>1
  <2>9. d \in LeftOut(from, to)
    BY <2>6, <2>7, <2>8 DEF LeftOut
  <2> QED
    BY <1>3, <2>2, <2>9
<1>4. Gapless(VisionSlots(from, to), from)
  <2> SUFFICES ASSUME NEW g \in VisionSlots(from, to), NEW k \in Certain(Slots),
                      from <= StartOf(k), MonthOf(k) = MonthOf(g), k <= g
               PROVE  k \in VisionSlots(from, to)
    BY DEF Gapless
  <2>1. g \in Span(from, to) /\ MonthOf(g) \notin Skipped(from, to)
    BY <1>2
  <2>2. g \in Nat /\ StartOf(g) = 2 * g /\ StartOf(g) < to /\ k \in Nat /\ StartOf(k) = 2 * k
        /\ k \in Existing(Slots)
    BY <2>1, CertainIs DEF Span
  <2>3. k \in Span(from, to)
    BY <2>2 DEF Span
  <2> QED
    BY <1>2, <2>1, <2>3
<1>5. \A k \in Certain(Slots) : from <= StartOf(k) /\ StartOf(k) < to => k \in Span(from, to)
  BY CertainIs DEF Span
<1> QED
  BY <1>2, <1>3, <1>4, <1>5 DEF Fits

(***************************************************************************)
(* A stock's source gives what its sessions have from their first trade on, *)
(* but for a session cut by the start, and to the end of the last one.     *)
(***************************************************************************)
LEMMA StockFits ==
  ASSUME source = "stock", now \in Nat, listing \in Nat, NEW until \in Nat, until <= now,
         Boundary(until), NEW from \in Nat, CutsNone(from), NEW to \in Int, to <= until,
         to <= 2 * NumSlots, NEW days
  PROVE  /\ Fits(StockSlots(from, to), from, to, days)
         /\ to = until => AtCloses(StockSlots(from, to))
<1>0. \A o \in Opens : o \in Nat
  BY SessionsAssumption
<1>1. \A c \in Closes : c \in Nat /\ StartOf(c) = 2 * c
  BY SessionsAssumption DEF StartOf
<1>2. \A k \in Slots : k \in Nat /\ StartOf(k) = 2 * k /\ k < NumSlots
  BY SlotIs
<1>3. ASSUME NEW k \in Slots, StartOf(k) < to
      PROVE  \E c \in Closes : k < c /\ StartOf(c) <= now /\ StartOf(c) = until
  <2>1. until # 0
    BY <1>2, <1>3
  <2>2. PICK x \in Closes : until = StartOf(x)
    BY <2>1 DEF Boundary
  <2> QED
    BY <1>1, <1>2, <1>3, <2>2
<1>4. ASSUME NEW k \in StockSlots(from, to)
      PROVE  k \in Span(from, to) /\ \E o \in Opens : InSession(o, k) /\ DateOf(from) <= DayOf(o)
  <2>1. PICK j \in Traded(from, to) : j <= k
    BY DEF StockSlots
  <2>2. k \in Grid(from, to) /\ j \in Grid(from, to) /\ j \notin Quiet
    BY <2>1 DEF StockSlots, Traded
  <2>3. k \in Within(from, to) /\ \E o \in Opens : InSession(o, k) /\ DateOf(from) <= DayOf(o)
    BY <2>2 DEF Grid
  <2>4. k \in Slots /\ k >= listing /\ from <= StartOf(k) /\ StartOf(k) < to
    BY <2>3 DEF Within
  <2>5. k \in SessionSlots
    BY <2>3, <2>4 DEF SessionSlots
  <2>6. j \in Slots /\ j >= listing /\ j \in SessionSlots
    BY <2>2 DEF Grid, Within, SessionSlots
  <2>7. j \in (listing..k) \cap SessionSlots
    BY <1>2, <2>1, <2>4, <2>6
  <2>8. k \in Existing(Slots)
    BY <2>2, <2>4, <2>5, <2>7 DEF Existing
  <2> QED
    BY <2>3, <2>4, <2>8 DEF Span
<1>5. ASSUME NEW k \in Certain(Slots), from <= StartOf(k), StartOf(k) < to
      PROVE  k \in StockSlots(from, to)
  <2>1. k \in Slots /\ k >= listing /\ k \in Nat
    BY CertainIs
  <2>2. PICK o \in Opens : /\ InSession(o, k) /\ MonthOf(o) = MonthOf(k)
                           /\ \E j \in o..k : j \notin Quiet /\ j >= listing
    BY DEF Certain, Opened
  <2>3. from <= StartOf(o) /\ o \in Nat
    BY <1>0, <1>5, <2>1, <2>2 DEF CutsNone
  <2>4. DateOf(from) <= DayOf(o)
    BY <2>3, DateBefore
  <2>5. k \in Within(from, to)
    BY <1>5, <2>1 DEF Within
  <2>6. k \in Grid(from, to)
    BY <2>2, <2>4, <2>5 DEF Grid
  <2>7. PICK j \in o..k : j \notin Quiet /\ j >= listing
    BY <2>2
  <2>8. j \in Nat /\ o <= j /\ j <= k /\ j \in Slots /\ StartOf(j) = 2 * j
    <3>1. j \in Nat /\ o <= j /\ j <= k
      BY <2>1, <2>3
    <3>2. j < NumSlots /\ NumSlots \in Nat
      BY <1>2, <2>1, <3>1, SlotCount
    <3> QED
      BY <3>1, <3>2 DEF Slots, StartOf
  <2>9. from <= StartOf(j) /\ StartOf(j) < to
    BY <1>2, <1>5, <2>1, <2>3, <2>8 DEF StartOf
  <2>10. InSession(o, j)
    BY <1>1, <2>1, <2>2, <2>3, <2>8 DEF InSession
  <2>11. j \in Grid(from, to)
    BY <2>4, <2>7, <2>8, <2>9, <2>10 DEF Grid, Within
  <2>12. j \in Traded(from, to)
    BY <1>3, <2>7, <2>8, <2>9, <2>11 DEF Traded
  <2> QED
    BY <2>6, <2>8, <2>12 DEF StockSlots
<1>6. Gapless(StockSlots(from, to), from)
  <2> SUFFICES ASSUME NEW g \in StockSlots(from, to), NEW k \in Certain(Slots),
                      from <= StartOf(k), k <= g
               PROVE  k \in StockSlots(from, to)
    BY DEF Gapless
  <2>1. g \in Slots /\ StartOf(g) < to /\ k \in Slots
    BY <1>4, CertainIs DEF Span
  <2>2. StartOf(k) < to
    BY <1>2, <2>1
  <2> QED
    BY <1>5, <2>2
<1>7. ASSUME to = until, NEW g \in StockSlots(from, to)
      PROVE  \E h \in StockSlots(from, to) : g <= h /\ h + 1 \in Closes
  <2>1. PICK o \in Opens : InSession(o, g) /\ DateOf(from) <= DayOf(o)
    BY <1>4
  <2>2. /\ g \in Slots /\ g \in Nat /\ g >= listing /\ from <= StartOf(g) /\ StartOf(g) < to
        /\ StartOf(g) = 2 * g /\ o \in Nat /\ o <= g
    BY <1>0, <1>2, <1>4, <2>1, CertainIs DEF Span, InSession
  <2>3. PICK x \in Closes : g < x /\ StartOf(x) = until
    BY <1>3, <2>2
  <2>4. PICK C : C = {c \in Closes : o < c}
    OBVIOUS
  <2>5. PICK c : c = Min(C)
    OBVIOUS
  <2>6. c \in C /\ \A d \in C : c <= d
    <3>1. C \in SUBSET Nat /\ x \in C
      BY <1>1, <2>2, <2>3, <2>4
    <3> QED
      BY <2>5, <3>1, LeastOf
  <2>7. /\ c \in Closes /\ c \in Nat /\ o < c /\ c <= x /\ x \in Nat
        /\ \A d \in Closes : d <= o \/ c <= d
    BY <1>1, <2>2, <2>3, <2>4, <2>6
  <2>8. g < c
    BY <2>1, <2>2, <2>7 DEF InSession
  <2>9. PICK h : h = c - 1 /\ h \in Nat /\ g <= h /\ h + 1 = c
    BY <2>2, <2>7, <2>8
  <2>10. h \in Slots /\ StartOf(h) = 2 * h /\ StartOf(h) < to
    <3>1. 2 * h < until /\ h < NumSlots
      BY <1>1, <1>7, <2>3, <2>7, <2>9, SlotCount
    <3> QED
      BY <1>7, <2>9, <3>1, SlotCount DEF Slots, StartOf
  <2>11. InSession(o, h)
    BY <1>1, <2>2, <2>7, <2>9 DEF InSession
  <2>12. h \in Grid(from, to)
    BY <2>1, <2>2, <2>9, <2>10, <2>11 DEF Grid, Within
  <2>13. PICK j \in Traded(from, to) : j <= g
    BY DEF StockSlots
  <2>14. j \in Nat
    BY <1>2, <2>13 DEF Traded, Grid, Within
  <2>15. h \in StockSlots(from, to)
    BY <2>2, <2>9, <2>12, <2>13, <2>14 DEF StockSlots
  <2> QED
    BY <2>7, <2>9, <2>15
<1>8. to = until => AtCloses(StockSlots(from, to))
  BY <1>7 DEF AtCloses
<1>9. Fits(StockSlots(from, to), from, to, days)
  BY <1>4, <1>5, <1>6 DEF Fits
<1> QED
  BY <1>8, <1>9

\* So every source gives what fits.
LEMMA GivenFits ==
  ASSUME IsCandles, now \in Nat, listing \in Nat, NEW until \in Nat, until <= now,
         Boundary(until), NEW from \in Nat, CutsNone(from), NEW to \in Int, to <= until,
         to <= 2 * NumSlots
  PROVE  /\ Fits(SlotsGiven(from, to), from, to, LeftOut(from, to))
         /\ to = until => AtCloses(SlotsGiven(from, to))
<1>1. CASE source = "rest"
  <2>1. SlotsGiven(from, to) = Within(from, to)
    BY <1>1 DEF SlotsGiven
  <2> QED
    BY <1>1, <2>1, RestFits DEF AtCloses
<1>2. CASE source = "vision"
  <2>1. SlotsGiven(from, to) = VisionSlots(from, to)
    BY <1>2 DEF SlotsGiven
  <2> QED
    BY <1>2, <2>1, VisionFits DEF AtCloses
<1>3. CASE source = "stock"
  <2>1. SlotsGiven(from, to) = StockSlots(from, to)
    BY <1>3 DEF SlotsGiven
  <2> QED
    BY <1>3, <2>1, StockFits
<1> QED
  BY <1>1, <1>2, <1>3 DEF IsCandles

-----------------------------------------------------------------------------
(* The cache holds what fits. *)

(* The slots of a sequence of candles, and that it is in their order.       *)
SlotSet(c) == {c[i].slot : i \in DOMAIN c}
Ordered(c) == \A i, j \in DOMAIN c : i < j => c[i].slot < c[j].slot

(* What was over at until is marked as final.                              *)
FinalUpTo(candles, until) ==
  \A i \in DOMAIN candles : EndOf(candles[i].slot) <= until => candles[i].final

(* How far a call reaches that asks for the months before e.               *)
Reach(e, until) == IF MonthStart(e) <= until THEN MonthStart(e) ELSE until

(* The slots of the months from a to e that such a call asks for.          *)
Handed(a, e, until) ==
  {k \in Existing(Slots) : /\ MonthStart(a) <= StartOf(k) /\ StartOf(k) < MonthStart(e)
                           /\ StartOf(k) < until}

(***************************************************************************)
(* c is a beginning of month m that was over at b: up to its last candle   *)
(* nothing certain is missing, and of a stock it ends where a session does. *)
(***************************************************************************)
Begun(m, c, b) ==
  /\ AllFinal(c) /\ Ordered(c)
  /\ \A k \in SlotSet(c) : k \in Span(MonthStart(m), MonthStart(m + 1)) /\ EndOf(k) <= b
  /\ Gapless(SlotSet(c), MonthStart(m)) /\ AtCloses(SlotSet(c))

(* c is what a call may have in hand of the months from a to e.            *)
InHand(a, e, until, c, days) ==
  /\ FinalUpTo(c, until) /\ Ordered(c)
  /\ Fits(SlotSet(c), MonthStart(a), Reach(e, until), days)
  /\ until < MonthStart(e) => AtCloses(SlotSet(c))

(* A chunk is what a fetch of its month may give.                          *)
ChunksFit ==
  \A m \in DOMAIN chunk :
    /\ AllFinal(chunk[m]) /\ Ordered(chunk[m])
    /\ Fits(SlotSet(chunk[m]), MonthStart(m), MonthStart(m + 1), unfound)
(* A partial chunk is a beginning that data_available_until has passed ...  *)
PartialsBegin == \A m \in DOMAIN partial : Begun(m, partial[m], DataAvailableUntil)
(* ... and one that a call extends had been passed when the call began.    *)
CallBegins ==
  call.pc \in {"fetch", "save", "promote"} =>
    /\ call.until <= DataAvailableUntil /\ Boundary(call.until)
    /\ \A m \in call.delta : Begun(m, partial[m], call.until)
(* The candles in hand, of which the months up to the one to be saved next *)
(* are saved.                                                              *)
CallHolds ==
  call.pc \in {"save", "promote"} =>
    \E a \in Int : /\ a <= call.month
                   /\ InHand(a, call.runEnd, call.until, call.candles, unfound)

\* The inductive invariant of the candle caches.
SourceInv ==
  /\ CacheShape /\ source \in Sources
  /\ ChunksFit /\ PartialsBegin /\ CallBegins /\ CallHolds

\* The slots of a sequence.
LEMMA SlotSetIs ==
  ASSUME NEW c \in Seq(Candle)
  PROVE  /\ \A k \in SlotSet(c) : k \in Slots /\ k \in Nat
         /\ Ordered(c) => InOrder(c, SlotSet(c))
         /\ \A A : InOrder(c, A) => SlotSet(c) = A /\ Ordered(c)
<1>1. \A k \in SlotSet(c) : k \in Slots
  <2>1. \A i \in DOMAIN c : c[i] \in Candle
    OBVIOUS
  <2>2. \A i \in DOMAIN c : c[i].slot \in Slots
    BY <2>1 DEF Candle
  <2> QED
    BY <2>2 DEF SlotSet
<1>2. \A k \in Slots : k \in Nat
  BY SlotIs
<1>3. Ordered(c) => InOrder(c, SlotSet(c))
  BY DEF Ordered, InOrder, SlotSet
<1>4. ASSUME NEW A, InOrder(c, A) PROVE SlotSet(c) = A /\ Ordered(c)
  <2>1. \A k : k \in SlotSet(c) <=> k \in A
    BY <1>4 DEF InOrder, SlotSet
  <2> QED
    BY <1>4, <2>1 DEF InOrder, Ordered
<1> QED
  BY <1>1, <1>2, <1>3, <1>4

\* What exists depends on the source and its listing only.
LEMMA WorldStays ==
  ASSUME source' = source, listing' = listing
  PROVE  /\ \A S : Existing(S)' = Existing(S) /\ Certain(S)' = Certain(S)
         /\ \A a, e, until : Handed(a, e, until)' = Handed(a, e, until)
         /\ \A t : Boundary(t)' <=> Boundary(t)
         /\ \A X, from, to, days : Fits(X, from, to, days)' <=> Fits(X, from, to, days)
         /\ \A m, c, b : Begun(m, c, b)' <=> Begun(m, c, b)
         /\ \A a, e, until, c, days : InHand(a, e, until, c, days)' <=> InHand(a, e, until, c, days)
<1>1. \A S : Existing(S)' = Existing(S)
  BY DEF Existing
<1>2. \A S : Certain(S)' = Certain(S)
  <2>1. \A k : Opened(k)' <=> Opened(k)
    BY DEF Opened
  <2> QED
    BY <1>1, <2>1 DEF Certain
<1>3. \A a, b : Span(a, b)' = Span(a, b)
  BY <1>1 DEF Span
<1>4. \A X, from : Gapless(X, from)' <=> Gapless(X, from)
  BY <1>2 DEF Gapless
<1>5. \A X : AtCloses(X)' <=> AtCloses(X)
  BY DEF AtCloses
<1>6. \A X, from, to, days : Fits(X, from, to, days)' <=> Fits(X, from, to, days)
  BY <1>2, <1>3, <1>4 DEF Fits
<1>7. \A m, c, b : Begun(m, c, b)' <=> Begun(m, c, b)
  BY <1>3, <1>4, <1>5 DEF Begun
<1>8. \A a, e, until, c, days : InHand(a, e, until, c, days)' <=> InHand(a, e, until, c, days)
  BY <1>5, <1>6 DEF InHand
<1>9. \A a, e, until : Handed(a, e, until)' = Handed(a, e, until)
  BY <1>1 DEF Handed
<1>10. \A t : Boundary(t)' <=> Boundary(t)
  BY DEF Boundary
<1> QED
  BY <1>1, <1>2, <1>6, <1>7, <1>8, <1>9, <1>10

\* What fits still does when more days had no file.
LEMMA MoreDays ==
  ASSUME NEW D, NEW E, D \subseteq E
  PROVE  /\ \A X, from, to : Fits(X, from, to, D) => Fits(X, from, to, E)
         /\ \A a, e, until, c : InHand(a, e, until, c, D) => InHand(a, e, until, c, E)
<1>1. \A X, from, to : Fits(X, from, to, D) => Fits(X, from, to, E)
  BY DEF Fits
<1> QED
  BY <1>1 DEF InHand

\* A beginning that was over stays one.
LEMMA LaterBegun ==
  ASSUME NEW m, NEW c \in Seq(Candle), NEW b \in Int, NEW d \in Int, b <= d, Begun(m, c, b)
  PROVE  Begun(m, c, d)
<1>1. \A k \in SlotSet(c) : EndOf(k) <= b /\ EndOf(k) \in Int
  BY SlotSetIs DEF Begun, EndOf
<1>2. \A k \in SlotSet(c) : EndOf(k) <= d
  BY <1>1
<1> QED
  BY <1>2 DEF Begun

\* data_available_until does not go back.
LEMMA UntilGrows ==
  ASSUME now \in Nat, now' \in Nat, now <= now', source' = source
  PROVE  /\ DataAvailableUntil \in Nat /\ DataAvailableUntil' \in Nat
         /\ DataAvailableUntil <= DataAvailableUntil' /\ DataAvailableUntil <= now
         /\ Boundary(DataAvailableUntil)
<1>1. DataAvailableUntil \in Nat /\ DataAvailableUntil <= now /\ Boundary(DataAvailableUntil)
  BY UntilIsTime
<1>2. CASE source # "stock"
  BY <1>1, <1>2 DEF DataAvailableUntil
<1>3. CASE source = "stock"
  <2>1. PICK a, b : a = LastEnd(now) /\ b = LastEnd(now')
    OBVIOUS
  <2>2. DataAvailableUntil = a
    BY <1>3, <2>1 DEF DataAvailableUntil, LastEnd
  <2>3. DataAvailableUntil' = b
    BY <1>3, <2>1 DEF DataAvailableUntil, LastEnd
  <2>4. b \in Nat /\ \A c \in Closes : StartOf(c) <= now' => StartOf(c) <= b
    BY <2>1, LastEndIs
  <2>5. a <= b
    <3>1. a = 0 \/ \E x \in Closes : a = StartOf(x)
      BY <2>1, LastEndIs
    <3>2. a <= now'
      BY <1>1, <2>2
    <3> QED
      BY <2>4, <3>1, <3>2
  <2> QED
    BY <1>1, <2>2, <2>3, <2>4, <2>5
<1> QED
  BY <1>2, <1>3

\* A chunk that is not written still fits ...
LEMMA ChunksStay ==
  ASSUME ChunksFit, source' = source, listing' = listing, unfound \subseteq unfound',
         \A m \in DOMAIN chunk' : m \in DOMAIN chunk /\ chunk'[m] = chunk[m]
  PROVE  ChunksFit'
<1>1. PICK D, E : D = unfound /\ E = unfound' /\ D \subseteq E
  OBVIOUS
<1>2. ASSUME NEW m \in DOMAIN chunk'
      PROVE  /\ AllFinal(chunk'[m]) /\ Ordered(chunk'[m])
             /\ Fits(SlotSet(chunk[m]), MonthStart(m), MonthStart(m + 1), unfound)'
  <2>1. PICK c : c = chunk[m] /\ c = chunk'[m]
    OBVIOUS
  <2>2. PICK X, a, b : X = SlotSet(c) /\ a = MonthStart(m) /\ b = MonthStart(m + 1)
    OBVIOUS
  <2>3. AllFinal(c) /\ Ordered(c) /\ Fits(X, a, b, D)
    BY <1>1, <2>1, <2>2 DEF ChunksFit
  <2>4. Fits(X, a, b, E)
    BY <1>1, <2>3, MoreDays
  <2>5. Fits(X, a, b, E)'
    BY <2>4, WorldStays
  <2> QED
    BY <1>1, <2>1, <2>2, <2>3, <2>5
<1> QED
  BY <1>2 DEF ChunksFit

\* ... a partial chunk is still a beginning, with time passing ...
LEMMA PartialsStay ==
  ASSUME PartialsBegin, Disk, source' = source, listing' = listing,
         now \in Nat, now' \in Nat, now <= now',
         \A m \in DOMAIN partial' : m \in DOMAIN partial /\ partial'[m] = partial[m]
  PROVE  PartialsBegin'
<1>1. PICK b, d : /\ b = DataAvailableUntil /\ d = DataAvailableUntil'
                  /\ b \in Nat /\ d \in Nat /\ b <= d
  BY UntilGrows
<1>2. ASSUME NEW m \in DOMAIN partial'
      PROVE  Begun(m, partial[m], DataAvailableUntil)'
  <2>1. PICK c : c = partial[m] /\ c = partial'[m] /\ c \in Seq(Candle)
    BY DEF Disk
  <2>2. Begun(m, c, b)
    BY <1>1, <2>1 DEF PartialsBegin
  <2>3. Begun(m, c, d)
    BY <1>1, <2>1, <2>2, LaterBegun
  <2>4. Begun(m, c, d)'
    BY <2>3, WorldStays
  <2> QED
    BY <1>1, <2>1, <2>4
<1> QED
  BY <1>2 DEF PartialsBegin

\* ... also as of the time a call began ...
LEMMA BeginsStay ==
  ASSUME CallBegins, InCall, call.pc \in {"fetch", "save", "promote"},
         source' = source, listing' = listing, now \in Nat, now' \in Nat, now <= now',
         call'.until = call.until, call'.delta \subseteq call.delta,
         \A m \in call'.delta : partial'[m] = partial[m]
  PROVE  CallBegins'
<1>1. PICK u \in Nat : u = call.until /\ u = call'.until
  BY DEF InCall
<1>2. u <= DataAvailableUntil' /\ Boundary(u)'
  <2>1. u <= DataAvailableUntil /\ Boundary(u)
    BY <1>1 DEF CallBegins
  <2>2. PICK b, d : /\ b = DataAvailableUntil /\ d = DataAvailableUntil'
                    /\ b \in Nat /\ d \in Nat /\ b <= d
    BY UntilGrows
  <2>3. u <= d
    BY <2>1, <2>2
  <2> QED
    BY <2>1, <2>2, <2>3, WorldStays
<1>3. ASSUME NEW m \in call'.delta PROVE Begun(m, partial[m], u)'
  <2>1. PICK c : c = partial[m] /\ c = partial'[m]
    OBVIOUS
  <2>2. Begun(m, c, u)
    BY <1>1, <2>1 DEF CallBegins
  <2>3. Begun(m, c, u)'
    BY <2>2, WorldStays
  <2> QED
    BY <2>1, <2>3
<1> QED
  BY <1>1, <1>2, <1>3 DEF CallBegins

\* ... and what is in hand while its months are saved.
LEMMA HoldsStays ==
  ASSUME CallHolds, call.pc \in {"save", "promote"}, source' = source, listing' = listing,
         unfound \subseteq unfound', call.month \in Int, call'.month \in Int,
         call'.candles = call.candles, call'.runEnd = call.runEnd, call'.until = call.until,
         call.month <= call'.month
  PROVE  CallHolds'
<1>1. PICK D, E : D = unfound /\ E = unfound' /\ D \subseteq E
  OBVIOUS
<1>2. PICK e, u, c : /\ e = call.runEnd /\ u = call.until /\ c = call.candles
                     /\ e = call'.runEnd /\ u = call'.until /\ c = call'.candles
  OBVIOUS
<1>3. PICK a \in Int : a <= call.month /\ InHand(a, e, u, c, D)
  BY <1>1, <1>2 DEF CallHolds
<1>4. InHand(a, e, u, c, E)
  BY <1>1, <1>3, MoreDays
<1>5. InHand(a, e, u, c, E)'
  BY <1>4, WorldStays
<1>6. a <= call'.month
  BY <1>3
<1> QED
  BY <1>1, <1>2, <1>5, <1>6 DEF CallHolds

(* Time passes: nothing the cache holds changes. *)
LEMMA SourceOutside ==
  ASSUME SourceInv, CacheShape', UNCHANGED cacheVars, source' = source, listing' = listing,
         now' \in Nat, now <= now'
  PROVE  SourceInv'
<1>1. /\ chunk' = chunk /\ partial' = partial /\ call' = call /\ unfound' = unfound /\ now \in Nat
      /\ ChunksFit /\ PartialsBegin /\ CallBegins /\ CallHolds /\ source \in Sources /\ Disk
  BY DEF SourceInv, cacheVars, CacheShape
<1>2. ChunksFit' /\ PartialsBegin'
  BY <1>1, ChunksStay, PartialsStay
<1>3. CASE call.pc \notin {"fetch", "save", "promote"}
  BY <1>1, <1>2, <1>3 DEF SourceInv, CallBegins, CallHolds
<1>4. CASE call.pc \in {"fetch", "save", "promote"}
  <2>1. InCall
    BY <1>4 DEF SourceInv, CacheShape, Idle
  <2>2. CallBegins'
    BY <1>1, <1>4, <2>1, BeginsStay
  <2>3. call.month \in Int
    BY <2>1 DEF InCall
  <2>4. CallHolds'
    <3>1. CASE call.pc \in {"save", "promote"}
      BY <1>1, <2>3, <3>1, HoldsStays
    <3>2. CASE call.pc \notin {"save", "promote"}
      BY <1>1, <3>2 DEF CallHolds
    <3> QED
      BY <3>1, <3>2
  <2> QED
    BY <1>1, <1>2, <2>2, <2>4 DEF SourceInv
<1> QED
  BY <1>3, <1>4

(* The steps that write no candles. *)
LEMMA CallsFetchNothing ==
  ASSUME SourceInv,
         \/ \E first, last \in MonthNumbers : first <= last /\ Request(first, last)
         \/ OnCacheOpen \/ DropStale \/ WriteMeta \/ Return \/ Raise \/ Crash
  PROVE  call'.pc \notin {"fetch", "save", "promote"}
<1>1. CASE \E first, last \in MonthNumbers : first <= last /\ Request(first, last)
  BY <1>1 DEF Request, Call
<1>2. CASE OnCacheOpen
  <2>1. PICK step : /\ step \in {"classify", "mark", "drop"}
                    /\ call' = [call EXCEPT !.latest = splits, !.pc = step]
    BY <1>2 DEF OnCacheOpen
  <2>2. InCall
    BY <1>2 DEF OnCacheOpen, SourceInv, CacheShape, Idle
  <2> QED
    BY <2>1, <2>2 DEF InCall
<1>3. CASE DropStale
  <2>1. InCall /\ call.pc = "drop"
    BY <1>3 DEF DropStale, SourceInv, CacheShape, Idle
  <2>2. call' = call \/ call' = [call EXCEPT !.pc = "mark"]
    BY <1>3 DEF DropStale
  <2> QED
    BY <2>1, <2>2 DEF InCall
<1>4. CASE WriteMeta
  <2>1. InCall /\ call' = [call EXCEPT !.pc = "classify"]
    BY <1>4 DEF WriteMeta, SourceInv, CacheShape, Idle
  <2> QED
    BY <2>1 DEF InCall
<1>5. CASE Return \/ Raise \/ Crash
  BY <1>5 DEF Return, Raise, Crash, Idle
<1> QED
  BY <1>1, <1>2, <1>3, <1>4, <1>5

\* They change no file but to drop it.
LEMMA SourceCalls ==
  ASSUME SourceInv, CacheShape', UNCHANGED world,
         \/ \E first, last \in MonthNumbers : first <= last /\ Request(first, last)
         \/ OnCacheOpen \/ DropStale \/ WriteMeta \/ Return \/ Raise \/ Crash
  PROVE  SourceInv'
<1>1. /\ source' = source /\ listing' = listing /\ now' = now /\ now \in Nat
      /\ ChunksFit /\ PartialsBegin /\ source \in Sources /\ Disk
  BY DEF SourceInv, CacheShape, world
<1>2. call'.pc \notin {"fetch", "save", "promote"}
  BY CallsFetchNothing
<1>3. /\ \A m \in DOMAIN chunk' : m \in DOMAIN chunk /\ chunk'[m] = chunk[m]
      /\ \A m \in DOMAIN partial' : m \in DOMAIN partial /\ partial'[m] = partial[m]
      /\ unfound' = unfound
  <2>1. CASE DropStale
    BY <2>1 DEF DropStale, Without, Restrict
  <2>2. CASE ~DropStale
    <3>1. chunk' = chunk /\ partial' = partial /\ unfound' = unfound
      BY <2>2 DEF Request, OnCacheOpen, WriteMeta, Return, Raise, Crash
    <3> QED
      BY <3>1
  <2> QED
    BY <2>1, <2>2
<1>4. ChunksFit' /\ PartialsBegin'
  BY <1>1, <1>3, ChunksStay, PartialsStay
<1> QED
  BY <1>1, <1>2, <1>4 DEF SourceInv, CallBegins, CallHolds

\* A promotion drops the partial chunk of a month that has its chunk.
LEMMA SourcePromote ==
  ASSUME SourceInv, CacheShape', UNCHANGED world, Promote
  PROVE  SourceInv'
<1>1. /\ source' = source /\ listing' = listing /\ now' = now /\ now \in Nat
      /\ ChunksFit /\ PartialsBegin /\ CallBegins /\ CallHolds /\ source \in Sources /\ Disk
      /\ InCall /\ call.pc = "promote" /\ chunk' = chunk /\ Saving /\ unfound' = unfound
      /\ partial' = Without(partial, call.month)
  BY DEF Promote, SourceInv, CacheShape, world, Idle
<1>2. PICK step : step \in {"save", "fetch"}
                  /\ call' = [call EXCEPT !.month = call.month + 1, !.pc = step]
  BY DEF Promote
<1>3. /\ call'.pc = step /\ call'.month = call.month + 1 /\ call'.runEnd = call.runEnd
      /\ call'.until = call.until /\ call'.delta = call.delta /\ call'.candles = call.candles
      /\ call.month \in Int /\ call'.month \in Int /\ call.month <= call'.month
  BY <1>1, <1>2 DEF InCall
<1>4. /\ DOMAIN partial' = DOMAIN partial \ {call.month}
      /\ \A m \in DOMAIN partial' : partial'[m] = partial[m]
  BY <1>1 DEF Without, Restrict
<1>5. ChunksFit' /\ PartialsBegin'
  BY <1>1, <1>4, ChunksStay, PartialsStay
<1>6. CallBegins'
  <2>1. \A m \in call'.delta : partial'[m] = partial[m]
    BY <1>1, <1>3, <1>4 DEF Saving, SourceInv, CacheShape
  <2> QED
    BY <1>1, <1>3, <2>1, BeginsStay
<1>7. CallHolds'
  BY <1>1, <1>3, HoldsStays
<1> QED
  BY <1>1, <1>5, <1>6, <1>7 DEF SourceInv

(***************************************************************************)
(* The delta are the months whose partial chunk is readable: what they     *)
(* begin with is as of the time the call read.                             *)
(***************************************************************************)
LEMMA SourceClassify ==
  ASSUME SourceInv, CacheShape', UNCHANGED world, Classify
  PROVE  SourceInv'
<1>1. /\ source' = source /\ listing' = listing /\ now' = now /\ now \in Nat
      /\ ChunksFit /\ PartialsBegin /\ source \in Sources /\ Disk
      /\ InCall /\ chunk' = chunk /\ partial' = partial /\ unfound' = unfound
  BY DEF Classify, SourceInv, CacheShape, world, Idle
<1>2. PICK u \in Nat : u = DataAvailableUntil /\ Boundary(u)
  BY <1>1, UntilGrows
<1>3. PICK got, d, r : /\ call' = [call EXCEPT !.pc = "fetch", !.until = u, !.got = got,
                                               !.delta = d, !.missing = r]
                       /\ d = ((call.first..call.last) \ DOMAIN chunk) \cap DOMAIN partial
  BY <1>2 DEF Classify
<1>4. call'.pc = "fetch" /\ call'.until = u /\ call'.delta = d
  BY <1>1, <1>3 DEF InCall
<1>5. ChunksFit' /\ PartialsBegin'
  BY <1>1, ChunksStay, PartialsStay
<1>6. u <= DataAvailableUntil' /\ Boundary(u)'
  <2>1. u <= DataAvailableUntil'
    BY <1>1, <1>2, UntilGrows
  <2> QED
    BY <1>1, <1>2, <2>1, WorldStays
<1>7. ASSUME NEW m \in d PROVE Begun(m, partial[m], u)'
  <2>1. PICK c : c = partial[m] /\ c = partial'[m]
    BY <1>1
  <2>2. Begun(m, c, u)
    BY <1>1, <1>2, <1>3, <2>1 DEF PartialsBegin
  <2>3. Begun(m, c, u)'
    BY <1>1, <2>2, WorldStays
  <2> QED
    BY <2>1, <2>3
<1>8. CallBegins'
  BY <1>4, <1>6, <1>7 DEF CallBegins
<1>9. CallHolds'
  BY <1>4 DEF CallHolds
<1> QED
  BY <1>1, <1>5, <1>8, <1>9 DEF SourceInv

\* What a call has in hand of one of its months.
LEMMA MonthFits ==
  ASSUME NEW a \in Int, NEW m \in MonthNumbers, NEW e \in Int, NEW u \in Nat, a <= m, m < e,
         NEW D, NEW X, Fits(X, MonthStart(a), Reach(e, u), D),
         NEW B, B = {k \in X : MonthOf(k) = m},
         NEW C, C = {k \in B : EndOf(k) <= u}
  PROVE  /\ MonthStart(m + 1) <= u => Fits(B, MonthStart(m), MonthStart(m + 1), D)
         /\ \A k \in B : k \in Span(MonthStart(m), MonthStart(m + 1))
         /\ Gapless(C, MonthStart(m))
         /\ u < MonthStart(e) /\ AtCloses(X) /\ Boundary(u) /\ u < MonthStart(m + 1) => AtCloses(C)
<1>1. m \in Nat /\ m + 1 \in Int
  BY Sizes DEF MonthNumbers
<1>2. /\ MonthStart(a) \in Int /\ MonthStart(m) \in Int /\ MonthStart(m + 1) \in Int /\ MonthStart(e) \in Int
      /\ MonthStart(a) <= MonthStart(m) /\ MonthStart(m + 1) <= MonthStart(e)
  BY <1>1, MonthStartsIn
<1>3. PICK r \in Int : /\ r = Reach(e, u) /\ r <= u /\ r <= MonthStart(e)
                       /\ MonthStart(m + 1) <= u => MonthStart(m + 1) <= r
  BY <1>2 DEF Reach
<1>4. \A k \in X : /\ k \in Existing(Slots) /\ k \in Nat /\ StartOf(k) = 2 * k /\ EndOf(k) = 2 * k + 2
                   /\ MonthStart(a) <= StartOf(k) /\ StartOf(k) < r
  <2>1. \A k \in X : k \in Span(MonthStart(a), r)
    BY <1>3 DEF Fits
  <2> QED
    BY <2>1, CertainIs DEF Span
<1>5. \A k \in Nat : MonthOf(k) = m <=> MonthStart(m) <= StartOf(k) /\ StartOf(k) < MonthStart(m + 1)
  BY <1>1, InMonth
<1>6. \A k \in B : k \in Span(MonthStart(m), MonthStart(m + 1))
  BY <1>4, <1>5 DEF Span
<1>7. \A k \in Certain(Slots) :
        /\ k \in Nat /\ StartOf(k) = 2 * k /\ EndOf(k) = 2 * k + 2
        /\ MonthStart(m) <= StartOf(k) => MonthStart(a) <= StartOf(k)
  <2>1. \A k \in Certain(Slots) : k \in Nat /\ StartOf(k) = 2 * k /\ EndOf(k) = 2 * k + 2
    BY CertainIs
  <2> QED
    BY <1>2, <2>1
<1>8. ASSUME NEW g \in B, NEW k \in Certain(Slots), MonthStart(m) <= StartOf(k), MonthOf(k) = MonthOf(g),
             k <= g
      PROVE  k \in B
  <2>1. k \in X
    BY <1>7, <1>8 DEF Fits, Gapless
  <2> QED
    BY <1>8, <2>1
<1>9. ASSUME MonthStart(m + 1) <= u
      PROVE  Fits(B, MonthStart(m), MonthStart(m + 1), D)
  <2>1. ASSUME NEW k \in Certain(Slots), MonthStart(m) <= StartOf(k), StartOf(k) < MonthStart(m + 1),
               source = "vision" => DayOf(k) \notin D
        PROVE  k \in B
    <3>1. MonthOf(k) = m
      BY <1>5, <1>7, <2>1
    <3>2. MonthStart(a) <= StartOf(k) /\ StartOf(k) < r
      BY <1>2, <1>3, <1>7, <1>9, <2>1
    <3>3. k \in X
      BY <1>3, <2>1, <3>2 DEF Fits
    <3> QED
      BY <3>1, <3>3
  <2>2. Gapless(B, MonthStart(m))
    BY <1>8 DEF Gapless
  <2> QED
    BY <1>6, <2>1, <2>2 DEF Fits
<1>10. Gapless(C, MonthStart(m))
  <2> SUFFICES ASSUME NEW g \in C, NEW k \in Certain(Slots), MonthStart(m) <= StartOf(k),
                      MonthOf(k) = MonthOf(g), k <= g
               PROVE  k \in C
    BY DEF Gapless
  <2>1. g \in B /\ EndOf(g) <= u /\ g \in X
    OBVIOUS
  <2>2. k \in B
    BY <1>8, <2>1
  <2>3. EndOf(k) <= u
    BY <1>4, <1>7, <2>1
  <2> QED
    BY <2>2, <2>3
<1>11. ASSUME u < MonthStart(e), AtCloses(X), Boundary(u), u < MonthStart(m + 1)
       PROVE  AtCloses(C)
  <2> SUFFICES ASSUME source = "stock", NEW g \in C
               PROVE  \E h \in C : g <= h /\ h + 1 \in Closes
    BY DEF AtCloses
  <2>1. g \in X /\ g \in B
    OBVIOUS
  <2>2. PICK h \in X : g <= h /\ h + 1 \in Closes
    BY <1>11, <2>1 DEF AtCloses
  <2>3. u = 0 \/ \E x \in Closes : u = StartOf(x)
    BY <1>11 DEF Boundary
  <2>4. PICK x \in Nat : u = 2 * x
    <3>1. \A x \in Closes : x \in Nat /\ StartOf(x) = 2 * x
      BY SessionsAssumption DEF StartOf
    <3>2. CASE u = 0
      BY <3>2
    <3>3. CASE \E x \in Closes : u = StartOf(x)
      BY <3>1, <3>3
    <3> QED
      BY <2>3, <3>2, <3>3
  <2>5. EndOf(h) <= u
    BY <1>3, <1>4, <2>4
  <2>6. MonthOf(h) = m
    <3>1. MonthStart(m) <= StartOf(g)
      BY <1>6, <2>1 DEF Span
    <3>2. MonthStart(m) <= StartOf(h) /\ StartOf(h) < MonthStart(m + 1)
      BY <1>2, <1>3, <1>4, <1>11, <2>1, <2>2, <3>1
    <3> QED
      BY <1>4, <1>5, <3>2
  <2>7. h \in C
    BY <2>5, <2>6
  <2> QED
    BY <2>2, <2>7
<1> QED
  BY <1>6, <1>9, <1>10, <1>11

(* What of the candles in hand is saved of month m. *)
LEMMA MonthInHand ==
  ASSUME NEW c \in Seq(Candle), NEW a \in Int, NEW m \in MonthNumbers, NEW e \in Int, NEW u \in Nat,
         a <= m, m < e, NEW D, InHand(a, e, u, c, D), Boundary(u)
  PROVE  /\ MonthStart(m + 1) <= u =>
              /\ AllFinal(OfMonth(c, m)) /\ Ordered(OfMonth(c, m))
              /\ Fits(SlotSet(OfMonth(c, m)), MonthStart(m), MonthStart(m + 1), D)
         /\ u < MonthStart(m + 1) => Begun(m, Closed(OfMonth(c, m), u), u)
<1>1. m \in Nat /\ m + 1 \in Int
  BY Sizes DEF MonthNumbers
<1>2. PICK X : X = SlotSet(c)
  OBVIOUS
<1>3. PICK B : B = {k \in X : MonthOf(k) = m}
  OBVIOUS
<1>4. PICK C : C = {k \in B : EndOf(k) <= u}
  OBVIOUS
<1>5. /\ FinalUpTo(c, u) /\ Ordered(c) /\ Fits(X, MonthStart(a), Reach(e, u), D)
      /\ u < MonthStart(e) => AtCloses(X)
  BY <1>2 DEF InHand
<1>6. /\ X \in SUBSET Slots /\ B \in SUBSET X /\ C \in SUBSET B /\ InOrder(c, X)
  <2>1. \A k \in X : k \in Slots
    BY <1>2, SlotSetIs
  <2>2. InOrder(c, X)
    BY <1>2, <1>5, SlotSetIs
  <2> QED
    BY <1>3, <1>4, <2>1, <2>2
<1>7. MonthStart(m + 1) \in Int /\ MonthStart(e) \in Int /\ MonthStart(m + 1) <= MonthStart(e)
  <2>1. m + 1 <= e
    BY <1>1
  <2> QED
    BY <1>1, <2>1, MonthStartsIn
<1>8. /\ MonthStart(m + 1) <= u => Fits(B, MonthStart(m), MonthStart(m + 1), D)
      /\ \A k \in B : k \in Span(MonthStart(m), MonthStart(m + 1))
      /\ Gapless(C, MonthStart(m))
      /\ u < MonthStart(m + 1) => AtCloses(C)
  <2>1. u < MonthStart(m + 1) => u < MonthStart(e)
    BY <1>7
  <2> QED
    BY <1>3, <1>4, <1>5, <2>1, MonthFits
<1>9. PICK mine, K : mine = OfMonth(c, m) /\ K = {i \in DOMAIN c : MonthOf(c[i].slot) = m}
  OBVIOUS
<1>10. mine \in Seq(Candle) /\ InOrder(mine, B)
  <2>1. mine = At(c, K) /\ K \in SUBSET (DOMAIN c)
    BY <1>9 DEF OfMonth
  <2>2. \A i \in DOMAIN c : i \in K <=> c[i].slot \in B
    BY <1>3, <1>6, <1>9 DEF InOrder
  <2> QED
    BY <1>6, <2>1, <2>2, InOrderAt
<1>11. FinalUpTo(mine, u) /\ SlotSet(mine) = B /\ Ordered(mine)
  <2>1. \A j \in DOMAIN mine : \E i \in DOMAIN c : mine[j] = c[i]
    BY <1>9, SavedIs
  <2>2. FinalUpTo(mine, u)
    BY <1>5, <2>1 DEF FinalUpTo
  <2> QED
    BY <1>10, <2>2, SlotSetIs
<1>12. ASSUME MonthStart(m + 1) <= u
       PROVE  AllFinal(mine)
  <2> SUFFICES ASSUME NEW i \in DOMAIN mine PROVE mine[i].final
    BY DEF AllFinal
  <2>1. PICK k : k = mine[i].slot
    OBVIOUS
  <2>2. k \in B
    BY <1>10, <2>1 DEF InOrder
  <2>3. k \in Nat /\ MonthOf(k) = m
    <3>1. k \in Slots
      BY <1>6, <2>2
    <3> QED
      BY <1>3, <2>2, <3>1, SlotIs
  <2>4. EndOf(k) <= MonthStart(m + 1) /\ EndOf(k) \in Int
    BY <1>1, <2>3, MonthOfIs DEF EndOf
  <2>5. EndOf(k) <= u
    BY <1>7, <1>12, <2>4
  <2> QED
    BY <1>11, <2>1, <2>5 DEF FinalUpTo
<1>13. ASSUME u < MonthStart(m + 1)
       PROVE  Begun(m, Closed(mine, u), u)
  <2>1. PICK L, closed : L = {i \in DOMAIN mine : EndOf(mine[i].slot) <= u} /\ closed = Closed(mine, u)
    OBVIOUS
  <2>2. closed = At(mine, L) /\ L \in SUBSET (DOMAIN mine)
    BY <2>1 DEF Closed
  <2>3. \A i \in DOMAIN mine : i \in L <=> mine[i].slot \in C
    BY <1>4, <1>10, <2>1 DEF InOrder
  <2>4. B \in SUBSET Slots
    BY <1>6
  <2>5. closed \in Seq(Candle) /\ InOrder(closed, C)
    BY <1>6, <1>10, <2>2, <2>3, <2>4, InOrderAt
  <2>6. SlotSet(closed) = C /\ Ordered(closed)
    BY <2>5, SlotSetIs
  <2>7. \A j \in DOMAIN closed : \E i \in DOMAIN mine : closed[j] = mine[i] /\ EndOf(mine[i].slot) <= u
    BY <1>10, <2>1, SavedIs
  <2>8. AllFinal(closed)
    BY <1>11, <2>7 DEF FinalUpTo, AllFinal
  <2>9. \A k \in C : k \in Span(MonthStart(m), MonthStart(m + 1)) /\ EndOf(k) <= u
    BY <1>4, <1>8
  <2>10. Begun(m, closed, u)
    BY <1>8, <1>13, <2>6, <2>8, <2>9 DEF Begun
  <2> QED
    BY <2>1, <2>10
<1> QED
  BY <1>8, <1>9, <1>11, <1>12, <1>13

(***************************************************************************)
(* A save puts on disk what was in hand of its month: all of it if the     *)
(* month is over, and else what was closed when the call began.            *)
(***************************************************************************)
LEMMA SourceSave ==
  ASSUME SourceInv, CacheShape', UNCHANGED world, SaveMonth
  PROVE  SourceInv'
<1>1. /\ source' = source /\ listing' = listing /\ now' = now /\ now \in Nat /\ now <= now'
      /\ ChunksFit /\ PartialsBegin /\ CallBegins /\ CallHolds /\ source \in Sources /\ CacheShape
      /\ InCall /\ call.pc = "save" /\ Saving /\ call.month \in MonthNumbers /\ Disk
  BY SaveMonthIs DEF SourceInv, CacheShape, world
<1>2. PICK m, saved, step : m = call.month /\ SavedAs(m, saved, step)
  BY <1>1, SaveMonthIs
<1>3. /\ call'.pc = step /\ call'.month = call.month /\ call'.runEnd = call.runEnd
      /\ call'.until = call.until /\ call'.delta = call.delta /\ call'.candles = call.candles
      /\ call.until \in Nat /\ step \in {"fetch", "promote"} /\ call.candles \in Seq(Candle)
      /\ call.runEnd \in Nat /\ call.month \in Int /\ saved \in Seq(Candle)
  BY <1>1, <1>2 DEF InCall, SavedAs
<1>4. PICK u \in Nat : u = call.until
  BY <1>3
<1>5. PICK D : D = unfound /\ unfound' = D
  BY DEF SaveMonth
<1>6. u <= DataAvailableUntil /\ Boundary(u)
  BY <1>1, <1>4 DEF CallBegins
<1>7. /\ MonthStart(m + 1) <= u =>
           /\ AllFinal(OfMonth(call.candles, m)) /\ Ordered(OfMonth(call.candles, m))
           /\ Fits(SlotSet(OfMonth(call.candles, m)), MonthStart(m), MonthStart(m + 1), D)
      /\ u < MonthStart(m + 1) => Begun(m, Closed(OfMonth(call.candles, m), u), u)
  <2>1. PICK c, e : c = call.candles /\ e = call.runEnd
    OBVIOUS
  <2>2. PICK a \in Int : a <= m /\ InHand(a, e, u, c, D)
    BY <1>1, <1>2, <1>4, <1>5, <2>1 DEF CallHolds
  <2>3. c \in Seq(Candle) /\ e \in Int /\ m < e /\ m \in MonthNumbers
    BY <1>1, <1>2, <1>3, <2>1 DEF Saving
  <2> QED
    BY <1>6, <2>1, <2>2, <2>3, MonthInHand
<1>8. \A n \in call.delta : n # m /\ n \in DOMAIN partial
  BY <1>1, <1>2 DEF Saving, CacheShape
<1>9. CASE step = "promote"
  <2>1. /\ MonthStart(m + 1) <= u /\ saved = OfMonth(call.candles, m)
        /\ chunk' = Written(chunk, m, saved) /\ partial' = partial
    BY <1>2, <1>4, <1>9 DEF SavedAs
  <2>2. /\ DOMAIN chunk' = DOMAIN chunk \cup {m} /\ chunk'[m] = saved
        /\ \A k \in DOMAIN chunk : k # m => chunk'[k] = chunk[k]
    BY <2>1 DEF Written
  <2>3. ASSUME NEW n \in DOMAIN chunk'
        PROVE  /\ AllFinal(chunk'[n]) /\ Ordered(chunk'[n])
               /\ Fits(SlotSet(chunk[n]), MonthStart(n), MonthStart(n + 1), unfound)'
    <3>1. PICK c, X, x, y : /\ c = chunk'[n] /\ X = SlotSet(c)
                            /\ x = MonthStart(n) /\ y = MonthStart(n + 1)
      OBVIOUS
    <3>2. AllFinal(c) /\ Ordered(c) /\ Fits(X, x, y, D)
      <4>1. CASE n = m
        BY <1>7, <2>1, <2>2, <3>1, <4>1
      <4>2. CASE n # m
        <5>1. n \in DOMAIN chunk /\ c = chunk[n]
          BY <2>2, <3>1, <4>2
        <5> QED
          BY <1>1, <1>5, <3>1, <5>1 DEF ChunksFit
      <4> QED
        BY <4>1, <4>2
    <3>3. Fits(X, x, y, D)'
      BY <1>1, <3>2, WorldStays
    <3>4. SlotSet(chunk'[n]) = X
      BY <3>1
    <3> QED
      BY <1>5, <3>1, <3>2, <3>3, <3>4
  <2>4. ChunksFit'
    BY <2>3 DEF ChunksFit
  <2>5. PartialsBegin' /\ CallBegins' /\ CallHolds'
    BY <1>1, <1>3, <1>5, <2>1, PartialsStay, BeginsStay, HoldsStays
  <2> QED
    BY <1>1, <2>4, <2>5 DEF SourceInv
<1>10. CASE step = "fetch"
  <2>1. /\ u < MonthStart(m + 1) /\ saved = Closed(OfMonth(call.candles, m), u)
        /\ partial' = Written(partial, m, saved) /\ chunk' = chunk
    BY <1>2, <1>4, <1>10 DEF SavedAs
  <2>2. /\ DOMAIN partial' = DOMAIN partial \cup {m} /\ partial'[m] = saved
        /\ \A k \in DOMAIN partial : k # m => partial'[k] = partial[k]
    BY <2>1 DEF Written
  <2>3. ChunksFit'
    BY <1>1, <1>5, <2>1, ChunksStay
  <2>4. PICK b \in Nat : b = DataAvailableUntil /\ b = DataAvailableUntil' /\ u <= b
    BY <1>1, <1>6, UntilGrows DEF DataAvailableUntil
  <2>5. ASSUME NEW n \in DOMAIN partial'
        PROVE  Begun(n, partial[n], DataAvailableUntil)'
    <3>1. PICK c : c = partial'[n]
      OBVIOUS
    <3>2. Begun(n, c, b)
      <4>1. CASE n = m
        <5>1. Begun(m, saved, u)
          BY <1>7, <2>1
        <5>2. Begun(m, saved, b)
          BY <1>3, <2>4, <5>1, LaterBegun
        <5> QED
          BY <2>2, <3>1, <4>1, <5>2
      <4>2. CASE n # m
        BY <1>1, <2>2, <2>4, <3>1, <4>2 DEF PartialsBegin
      <4> QED
        BY <4>1, <4>2
    <3>3. Begun(n, c, b)'
      BY <1>1, <3>2, WorldStays
    <3> QED
      BY <2>4, <3>1, <3>3
  <2>6. PartialsBegin'
    BY <2>5 DEF PartialsBegin
  <2>7. CallBegins'
    <3>1. \A n \in call'.delta : partial'[n] = partial[n]
      BY <1>3, <1>8, <2>2
    <3> QED
      BY <1>1, <1>3, <3>1, BeginsStay
  <2>8. CallHolds'
    BY <1>3, <1>10 DEF CallHolds
  <2> QED
    BY <1>1, <2>3, <2>6, <2>7, <2>8 DEF SourceInv
<1> QED
  BY <1>3, <1>9, <1>10

(* A partial chunk ends where the next call continues. *)
LEMMA ContinuesAt ==
  ASSUME NEW m \in MonthNumbers, NEW p \in Seq(Candle), p # << >>, NEW b \in Int, Begun(m, p, b),
         NEW f, f = EndOf(Last(p).slot)
  PROVE  /\ f \in Nat /\ CutsNone(f) /\ f <= b
         /\ MonthStart(m) <= f /\ f <= MonthStart(m + 1)
         /\ \E l \in SlotSet(p) : f = EndOf(l)
         /\ \A k \in SlotSet(p) : EndOf(k) <= f
<1>1. Len(p) \in Nat /\ DOMAIN p = 1..Len(p) /\ Len(p) \in DOMAIN p
  BY EmptySeq
<1>2. PICK l : l = Last(p).slot
  OBVIOUS
<1>3. l = p[Len(p)].slot /\ l \in SlotSet(p) /\ f = EndOf(l)
  BY <1>1, <1>2 DEF Last, SlotSet
<1>4. \A k \in SlotSet(p) : k \in Nat /\ k \in Slots /\ k <= l
  <2> SUFFICES ASSUME NEW k \in SlotSet(p) PROVE k \in Nat /\ k \in Slots /\ k <= l
    OBVIOUS
  <2>1. k \in Nat /\ k \in Slots /\ l \in Nat
    BY <1>3, SlotSetIs
  <2>2. PICK i \in DOMAIN p : p[i].slot = k
    BY DEF SlotSet
  <2>3. i = Len(p) \/ i < Len(p)
    BY <1>1, <2>2
  <2>4. i < Len(p) => p[i].slot < p[Len(p)].slot
    BY <1>1, <2>2 DEF Begun, Ordered
  <2> QED
    BY <1>3, <2>1, <2>2, <2>3, <2>4
<1>5. l \in Nat /\ l \in Slots /\ f = 2 * l + 2 /\ f \in Nat
  BY <1>3, <1>4 DEF EndOf
<1>6. \A k \in SlotSet(p) : EndOf(k) <= f
  BY <1>4, <1>5 DEF EndOf
<1>7. f <= b
  BY <1>3 DEF Begun
<1>8. MonthStart(m) <= f /\ f <= MonthStart(m + 1)
  <2>1. m \in Int /\ m + 1 \in Int
    BY Sizes DEF MonthNumbers
  <2>2. MonthStart(m) \in Int /\ MonthStart(m + 1) \in Int
    BY <2>1, MonthStartIs
  <2>3. l \in Span(MonthStart(m), MonthStart(m + 1))
    BY <1>3 DEF Begun
  <2>4. MonthOf(l) = m
    BY <1>5, <2>1, <2>3, InMonth DEF Span
  <2>5. MonthStart(m) <= StartOf(l) /\ EndOf(l) <= MonthStart(m + 1)
    BY <1>5, <2>1, <2>4, MonthOfIs
  <2> QED
    BY <1>3, <1>5, <2>2, <2>5 DEF StartOf
<1>9. CutsNone(f)
  <2>1. CASE source # "stock"
    BY <2>1 DEF CutsNone
  <2>2. CASE source = "stock"
    <3>1. PICK h \in SlotSet(p) : l <= h /\ h + 1 \in Closes
      BY <1>3, <2>2 DEF Begun, AtCloses
    <3>2. h = l
      BY <1>4, <1>5, <3>1
    <3>3. l + 1 \in Closes /\ f = StartOf(l + 1)
      BY <1>5, <3>1, <3>2 DEF StartOf
    <3> QED
      BY <3>3, CloseCutsNone
  <2> QED
    BY <2>1, <2>2
<1> QED
  BY <1>3, <1>5, <1>6, <1>7, <1>8, <1>9

\* What a partial chunk X has of a month, and what Y follows it.
LEMMA Joined ==
  ASSUME NEW m \in MonthNumbers, NEW f \in Int, NEW end \in Int, end <= MonthStart(m + 1), NEW D,
         NEW X, \A k \in X : /\ k \in Span(MonthStart(m), MonthStart(m + 1))
                             /\ EndOf(k) <= f /\ EndOf(k) <= end,
         Gapless(X, MonthStart(m)), MonthStart(m) <= f,
         f = MonthStart(m) \/ \E l \in X : f = EndOf(l),
         NEW Y, f < end => Fits(Y, f, end, D), ~(f < end) => Y = {}
  PROVE  /\ Fits(X \cup Y, MonthStart(m), end, D)
         /\ \A j \in X, k \in Y : j < k
<1>1. m \in Int /\ m + 1 \in Int /\ MonthStart(m) \in Int /\ MonthStart(m + 1) \in Int
  <2>1. m \in Int /\ m + 1 \in Int
    BY Sizes DEF MonthNumbers
  <2> QED
    BY <2>1, MonthStartIs
<1>2. \A k \in X : /\ k \in Existing(Slots) /\ k \in Nat /\ StartOf(k) = 2 * k /\ EndOf(k) = 2 * k + 2
                   /\ MonthStart(m) <= StartOf(k) /\ StartOf(k) < MonthStart(m + 1)
  BY CertainIs DEF Span
<1>3. \A k \in Y : /\ k \in Existing(Slots) /\ k \in Nat /\ StartOf(k) = 2 * k /\ EndOf(k) = 2 * k + 2
                   /\ f <= StartOf(k) /\ StartOf(k) < end /\ f < end
  <2>1. \A k \in Y : f < end /\ k \in Span(f, end)
    BY DEF Fits
  <2> QED
    BY <2>1, CertainIs DEF Span
<1>4. \A k \in Certain(Slots) : k \in Nat /\ StartOf(k) = 2 * k /\ EndOf(k) = 2 * k + 2
  BY CertainIs
<1>5. \A k \in Nat : MonthOf(k) = m <=> MonthStart(m) <= StartOf(k) /\ StartOf(k) < MonthStart(m + 1)
  BY <1>1, InMonth
<1>6. \A k \in X \cup Y : k \in Span(MonthStart(m), end)
  BY <1>1, <1>2, <1>3 DEF Span
<1>7. \A k \in X \cup Y : MonthOf(k) = m
  <2>1. \A k \in X : MonthOf(k) = m
    BY <1>2, <1>5
  <2>2. \A k \in Y : MonthStart(m) <= StartOf(k) /\ StartOf(k) < MonthStart(m + 1)
    BY <1>1, <1>3
  <2>3. \A k \in Y : MonthOf(k) = m
    BY <1>3, <1>5, <2>2
  <2> QED
    BY <2>1, <2>3
(* What is certain and precedes f is in X. *)
<1>8. ASSUME NEW k \in Certain(Slots), MonthStart(m) <= StartOf(k), StartOf(k) < f, MonthOf(k) = m
      PROVE  k \in X
  <2>1. PICK l \in X : f = EndOf(l)
    BY <1>1, <1>4, <1>8
  <2>2. k <= l
    BY <1>2, <1>4, <1>8, <2>1
  <2>3. MonthOf(k) = MonthOf(l)
    BY <1>7, <1>8, <2>1
  <2> QED
    BY <1>8, <2>1, <2>2, <2>3 DEF Gapless
<1>9. ASSUME NEW k \in Certain(Slots), MonthStart(m) <= StartOf(k), StartOf(k) < end,
             source = "vision" => DayOf(k) \notin D
      PROVE  k \in X \cup Y
  <2>1. StartOf(k) \in Int /\ StartOf(k) < MonthStart(m + 1)
    BY <1>1, <1>4, <1>9
  <2>2. MonthOf(k) = m
    BY <1>4, <1>5, <1>9, <2>1
  <2>3. CASE StartOf(k) < f
    BY <1>8, <1>9, <2>2, <2>3
  <2>4. CASE ~(StartOf(k) < f)
    <3>1. f <= StartOf(k) /\ f < end
      BY <1>9, <2>1, <2>4
    <3>2. Fits(Y, f, end, D)
      BY <3>1
    <3>3. k \in Y
      BY <1>9, <3>1, <3>2 DEF Fits
    <3> QED
      BY <3>3
  <2> QED
    BY <2>3, <2>4
<1>10. ASSUME NEW g \in X \cup Y, NEW k \in Certain(Slots), MonthStart(m) <= StartOf(k),
              MonthOf(k) = MonthOf(g), k <= g
       PROVE  k \in X \cup Y
  <2>1. CASE g \in X
    BY <1>10, <2>1 DEF Gapless
  <2>2. CASE g \in Y
    <3>1. MonthOf(k) = m /\ f < end /\ Fits(Y, f, end, D)
      BY <1>3, <1>7, <1>10, <2>2
    <3>2. CASE StartOf(k) < f
      BY <1>8, <1>10, <3>1, <3>2
    <3>3. CASE ~(StartOf(k) < f)
      <4>1. f <= StartOf(k)
        BY <1>4, <3>3
      <4>2. k \in Y
        BY <1>10, <2>2, <3>1, <4>1 DEF Fits, Gapless
      <4> QED
        BY <4>2
    <3> QED
      BY <3>2, <3>3
  <2> QED
    BY <2>1, <2>2
<1>11. Fits(X \cup Y, MonthStart(m), end, D)
  <2>1. Gapless(X \cup Y, MonthStart(m))
    BY <1>10 DEF Gapless
  <2> QED
    BY <1>6, <1>9, <2>1 DEF Fits
<1>12. \A j \in X, k \in Y : j < k
  BY <1>2, <1>3
<1> QED
  BY <1>11, <1>12

\* What a fetch returns fits.
LEMMA FetchedFits ==
  ASSUME IsCandles, now \in Nat, splits \in Nat, listing \in Nat, NEW until \in Nat, until <= now,
         Boundary(until), NEW from \in Nat, CutsNone(from), NEW to \in Int, to <= until,
         to <= 2 * NumSlots, NEW c, c = GetCandles(from, to)
  PROVE  /\ c \in Seq(Candle) /\ Ordered(c) /\ FinalUpTo(c, until)
         /\ Fits(SlotSet(c), from, to, LeftOut(from, to))
         /\ to = until => AtCloses(SlotSet(c))
<1>1. PICK A : A = SlotsGiven(from, to)
  OBVIOUS
<1>2. A \in SUBSET Slots
  BY <1>1, GivenAreSlots
<1>3. /\ c \in Seq(Candle) /\ SlotsIn(c) = Ascending(A)
      /\ \A i \in DOMAIN c : c[i].final = (EndOf(c[i].slot) <= now)
  BY <1>1, GetCandlesIs
<1>4. InOrder(c, A)
  BY <1>2, <1>3, InOrderIs
<1>5. SlotSet(c) = A /\ Ordered(c)
  BY <1>3, <1>4, SlotSetIs
<1>6. FinalUpTo(c, until)
  <2> SUFFICES ASSUME NEW i \in DOMAIN c, EndOf(c[i].slot) <= until PROVE c[i].final
    BY DEF FinalUpTo
  <2>1. c[i].slot \in Slots
    BY <1>2, <1>4 DEF InOrder
  <2>2. EndOf(c[i].slot) \in Int
    BY <2>1, SlotIs
  <2>3. EndOf(c[i].slot) <= now
    BY <2>2
  <2> QED
    BY <1>3, <2>3
<1>7. Fits(A, from, to, LeftOut(from, to)) /\ (to = until => AtCloses(A))
  BY <1>1, GivenFits
<1> QED
  BY <1>3, <1>5, <1>6, <1>7

\* Each element of two sequences joined is of one of them.
LEMMA ConcatHolds ==
  ASSUME NEW c \in Seq(Candle), NEW d \in Seq(Candle), NEW s \in Seq(Candle), s = c \o d
  PROVE  \A i \in DOMAIN s : (\E j \in DOMAIN c : s[i] = c[j]) \/ (\E j \in DOMAIN d : s[i] = d[j])
<1>1. PICK m, n : m = Len(c) /\ n = Len(d)
  OBVIOUS
<1>2. /\ m \in Nat /\ n \in Nat /\ DOMAIN c = 1..m /\ DOMAIN d = 1..n /\ DOMAIN s = 1..(m + n)
      /\ \A i \in 1..m : s[i] = c[i]
      /\ \A i \in 1..n : s[m + i] = d[i]
  BY <1>1, ConcatIs
<1> SUFFICES ASSUME NEW i \in DOMAIN s
             PROVE  (\E j \in DOMAIN c : s[i] = c[j]) \/ (\E j \in DOMAIN d : s[i] = d[j])
  OBVIOUS
<1>3. CASE i \in 1..m
  BY <1>2, <1>3
<1>4. CASE i \notin 1..m
  <2>1. i - m \in 1..n /\ m + (i - m) = i
    BY <1>2, <1>4
  <2>2. s[m + (i - m)] = d[i - m]
    BY <1>2, <2>1
  <2> QED
    BY <1>2, <2>1, <2>2
<1> QED
  BY <1>3, <1>4

(* What a fetch leaves in hand: the months from m to e. *)
Fetched(m, e, candles) ==
  /\ m \in Nat /\ e \in Nat /\ m < e /\ e <= Months /\ candles \in Seq(Candle)
  /\ InHand(m, e, call.until, candles, unfound') /\ unfound \subseteq unfound'
  /\ call'.pc = "save" /\ call'.month = m /\ call'.runEnd = e /\ call'.candles = candles
  /\ call'.until = call.until /\ call'.first = call.first /\ call'.last = call.last
  /\ call'.got = call.got \o candles
  /\ \/ /\ e = m + 1 /\ m \in call.delta
        /\ call'.delta = call.delta \ {m} /\ call'.missing = call.missing
     \/ /\ \A x \in m..(e - 1) : x \in call.missing
        /\ call'.delta = call.delta /\ call'.missing = call.missing \ (m..(e - 1))
  /\ UNCHANGED <<chunk, partial>> /\ InCall /\ call.pc = "fetch"

\* What a call has fixed, and where the months it asks for end.
LEMMA CallAsks ==
  ASSUME SourceInv, InCall, call.pc = "fetch", NEW u, u = call.until, NEW e \in Nat, e <= Months
  PROVE  /\ u \in Nat /\ u <= now /\ Boundary(u)
         /\ MonthStart(e) \in Nat /\ MonthStart(e) <= 2 * NumSlots /\ NumSlots \in Nat
         /\ Reach(e, u) \in Int /\ Reach(e, u) <= u /\ Reach(e, u) <= MonthStart(e)
         /\ Reach(e, u) <= 2 * NumSlots
         /\ u < MonthStart(e) => Reach(e, u) = u
<1>1. now \in Nat /\ CallBegins /\ u \in Nat
  BY DEF SourceInv, CacheShape, InCall
<1>2. u <= DataAvailableUntil /\ Boundary(u)
  BY <1>1 DEF CallBegins
<1>3. DataAvailableUntil \in Nat /\ DataAvailableUntil <= now
  BY <1>1, UntilIsTime
<1>4. MonthStart(e) \in Nat /\ MonthStart(e) <= 2 * NumSlots /\ NumSlots \in Nat
  <2>1. Months \in Int /\ e \in Int
    BY Sizes
  <2>2. MonthStart(e) <= MonthStart(Months)
    BY <2>1, MonthStartsIn
  <2>3. MonthStart(e) \in Nat
    BY <2>1, MonthStartIs
  <2> QED
    BY <2>2, <2>3, EndOfMonths, SlotCount
<1>5. u <= now
  BY <1>1, <1>2, <1>3
<1>6. /\ Reach(e, u) \in Int /\ Reach(e, u) <= u /\ Reach(e, u) <= MonthStart(e)
      /\ u < MonthStart(e) => Reach(e, u) = u
  BY <1>1, <1>4 DEF Reach
<1>7. Reach(e, u) <= 2 * NumSlots
  BY <1>4, <1>6
<1> QED
  BY <1>1, <1>2, <1>4, <1>5, <1>6, <1>7

(***************************************************************************)
(* A fetch of a delta joins the candles read from the partial chunk and    *)
(* those that came after them.                                             *)
(***************************************************************************)
LEMMA DeltaGives ==
  ASSUME IsCandles, SourceInv, UNCHANGED world, FetchDelta
  PROVE  \E m, e, candles : Fetched(m, e, candles)
<1>1. /\ now \in Nat /\ splits \in Nat /\ listing \in Nat
      /\ CacheShape /\ Disk /\ CallBegins /\ << >> \in Seq(Candle)
  BY Sizes DEF SourceInv, CacheShape, world
<1>2. PICK m, end, got, new : DeltaFetched(m, end, got, new)
  BY <1>1, DeltaHands
<1>3. /\ m \in call.delta /\ m \in Nat /\ m < Months /\ end \in Int
      /\ end = (IF MonthStart(m + 1) <= call.until THEN MonthStart(m + 1) ELSE call.until)
      /\ new = IF DeltaStart(m) < end THEN GetCandles(DeltaStart(m), end) ELSE << >>
      /\ call' = [Save(partial[m] \o new, got, m, m + 1) EXCEPT !.delta = call.delta \ {m}]
      /\ unfound' = unfound \cup LeftOut(DeltaStart(m), end)
      /\ UNCHANGED <<chunk, partial, meta>> /\ InCall /\ call.pc = "fetch"
  BY <1>2 DEF DeltaFetched
<1>4. m \in MonthNumbers /\ m + 1 \in Nat /\ m + 1 <= Months /\ m \in DOMAIN partial
      /\ partial[m] \in Seq(Candle)
  BY <1>1, <1>3, Sizes DEF CacheShape, Disk, InCall
<1>5. PICK u : u = call.until
  OBVIOUS
<1>6. /\ u \in Nat /\ u <= now /\ Boundary(u) /\ end = Reach(m + 1, u)
      /\ MonthStart(m + 1) \in Nat /\ end <= u /\ end <= MonthStart(m + 1) /\ end <= 2 * NumSlots
      /\ u < MonthStart(m + 1) => end = u
  <2>1. end = Reach(m + 1, u)
    BY <1>3, <1>5 DEF Reach
  <2> QED
    BY <1>3, <1>4, <1>5, <2>1, CallAsks
<1>7. PICK p \in Seq(Candle) : p = partial[m]
  BY <1>4
<1>8. Begun(m, p, u)
  BY <1>1, <1>3, <1>5, <1>7 DEF CallBegins
<1>9. PICK X : X = SlotSet(p)
  OBVIOUS
<1>10. /\ AllFinal(p) /\ Ordered(p) /\ Gapless(X, MonthStart(m)) /\ AtCloses(X)
       /\ \A k \in X : k \in Span(MonthStart(m), MonthStart(m + 1)) /\ EndOf(k) <= u
  BY <1>8, <1>9 DEF Begun
<1>11. PICK f : f = DeltaStart(m)
  OBVIOUS
(* What the partial chunk has and what the call fetches meet. *)
<1>12. /\ f \in Nat /\ MonthStart(m) <= f /\ CutsNone(f)
       /\ f = MonthStart(m) \/ \E l \in X : f = EndOf(l)
       /\ \A k \in X : EndOf(k) <= f /\ EndOf(k) <= end
  <2>1. CASE p = << >>
    <3>1. f = MonthStart(m) /\ f \in Nat
      BY <1>3, <1>7, <1>11, <2>1, MonthStartIs DEF DeltaStart
    <3>2. X = {}
      BY <1>9, <2>1 DEF SlotSet
    <3>3. CutsNone(f)
      BY <1>3, <3>1, MonthCutsNone
    <3> QED
      BY <3>1, <3>2, <3>3
  <2>2. CASE p # << >>
    <3>1. f = EndOf(Last(p).slot)
      BY <1>7, <1>11, <2>2 DEF DeltaStart
    <3>2. /\ f \in Nat /\ CutsNone(f) /\ f <= u
          /\ MonthStart(m) <= f /\ f <= MonthStart(m + 1)
          /\ \E l \in X : f = EndOf(l)
          /\ \A k \in X : EndOf(k) <= f
      BY <1>4, <1>6, <1>8, <1>9, <2>2, <3>1, ContinuesAt
    <3>3. f <= end
      BY <1>6, <3>2 DEF Reach
    <3>4. \A k \in X : EndOf(k) \in Int
      BY <1>9, SlotSetIs DEF EndOf
    <3>5. \A k \in X : EndOf(k) <= end
      BY <1>3, <3>2, <3>3, <3>4
    <3> QED
      BY <3>2, <3>5
  <2> QED
    BY <2>1, <2>2
<1>13. PICK E : E = unfound' /\ unfound \subseteq E /\ LeftOut(f, end) \subseteq E
  <2>1. PICK l : l = LeftOut(DeltaStart(m), end)
    OBVIOUS
  <2>2. l = LeftOut(f, end)
    BY <1>11, <2>1
  <2>3. unfound' = unfound \cup l
    BY <1>3, <2>1
  <2>4. PICK E : E = unfound'
    OBVIOUS
  <2>5. E = unfound' /\ unfound \subseteq E /\ l \subseteq E
    BY <2>3, <2>4
  <2> QED
    BY <2>2, <2>5
<1>14. PICK Y : Y = SlotSet(new)
  OBVIOUS
<1>15. /\ new \in Seq(Candle) /\ FinalUpTo(new, u) /\ Ordered(new)
       /\ f < end => Fits(Y, f, end, E)
       /\ ~(f < end) => Y = {} /\ new = << >>
       /\ u < MonthStart(m + 1) => AtCloses(Y)
  <2>1. CASE f < end
    <3>1. new = GetCandles(f, end)
      BY <1>3, <1>11, <2>1
    <3>2. /\ new \in Seq(Candle) /\ Ordered(new) /\ FinalUpTo(new, u)
          /\ Fits(Y, f, end, LeftOut(f, end))
          /\ end = u => AtCloses(Y)
      BY <1>1, <1>3, <1>6, <1>12, <1>14, <3>1, FetchedFits
    <3>3. Fits(Y, f, end, E)
      BY <1>13, <3>2, MoreDays
    <3> QED
      BY <1>6, <2>1, <3>2, <3>3
  <2>2. CASE ~(f < end)
    <3>1. new = << >>
      BY <1>3, <1>11, <2>2
    <3>2. DOMAIN new = {}
      BY <3>1
    <3>3. Y = {}
      BY <1>14, <3>2 DEF SlotSet
    <3> QED
      BY <1>1, <2>2, <3>1, <3>2, <3>3 DEF FinalUpTo, Ordered, AtCloses
  <2> QED
    BY <2>1, <2>2
<1>16. Fits(X \cup Y, MonthStart(m), end, E) /\ \A j \in X, k \in Y : j < k
  <2>1. /\ f \in Int /\ end \in Int /\ end <= MonthStart(m + 1) /\ m \in MonthNumbers
        /\ \A k \in X : /\ k \in Span(MonthStart(m), MonthStart(m + 1))
                        /\ EndOf(k) <= f /\ EndOf(k) <= end
    BY <1>3, <1>4, <1>6, <1>10, <1>12
  <2> QED
    BY <1>10, <1>12, <1>15, <2>1, Joined
<1>17. PICK candles \in Seq(Candle) : candles = p \o new
  BY <1>15, ConcatIs
<1>18. SlotSet(candles) = X \cup Y /\ Ordered(candles)
  <2>1. /\ X \in SUBSET Slots /\ Y \in SUBSET Slots
        /\ InOrder(p, X) /\ InOrder(new, Y)
    BY <1>9, <1>10, <1>14, <1>15, SlotSetIs
  <2>2. InOrder(candles, X \cup Y)
    BY <1>15, <1>16, <1>17, <2>1, InOrderConcat
  <2> QED
    BY <2>2, SlotSetIs
<1>19. FinalUpTo(candles, u)
  <2>1. \A i \in DOMAIN candles :
          (\E j \in DOMAIN p : candles[i] = p[j]) \/ (\E j \in DOMAIN new : candles[i] = new[j])
    BY <1>15, <1>17, ConcatHolds
  <2> SUFFICES ASSUME NEW i \in DOMAIN candles, EndOf(candles[i].slot) <= u
               PROVE  candles[i].final
    BY DEF FinalUpTo
  <2>2. CASE \E j \in DOMAIN p : candles[i] = p[j]
    BY <1>10, <2>2 DEF AllFinal
  <2>3. CASE \E j \in DOMAIN new : candles[i] = new[j]
    BY <1>15, <2>3 DEF FinalUpTo
  <2> QED
    BY <2>1, <2>2, <2>3
<1>20. u < MonthStart(m + 1) => AtCloses(X \cup Y)
  BY <1>10, <1>15 DEF AtCloses
<1>21. InHand(m, m + 1, u, candles, E)
  BY <1>6, <1>16, <1>18, <1>19, <1>20 DEF InHand
<1>22. /\ call'.pc = "save" /\ call'.month = m /\ call'.runEnd = m + 1
       /\ call'.candles = candles /\ call'.until = call.until /\ call'.got = got
       /\ call'.first = call.first /\ call'.last = call.last
       /\ call'.delta = call.delta \ {m} /\ call'.missing = call.missing
  <2>1. (call.delta \ {m}) \subseteq MonthNumbers
    BY <1>3 DEF InCall
  <2>2. call' = [Save(candles, got, m, m + 1) EXCEPT !.delta = call.delta \ {m}]
    BY <1>3, <1>7, <1>17
  <2> QED
    BY <1>3, <1>4, <2>1, <2>2, AfterDelta
<1>23. got = call.got \o candles
  BY <1>2, <1>7, <1>17 DEF DeltaFetched
<1>24. InHand(m, m + 1, call.until, candles, unfound') /\ unfound \subseteq unfound' /\ m < m + 1
  BY <1>3, <1>5, <1>13, <1>21
<1>25. Fetched(m, m + 1, candles)
  BY <1>3, <1>4, <1>22, <1>23, <1>24 DEF Fetched
<1> QED
  BY <1>25

\* A fetch of a run returns its months, or there is nothing of them yet.
LEMMA RunGives ==
  ASSUME IsCandles, SourceInv, UNCHANGED world, FetchRun
  PROVE  \/ \E m, e, candles : Fetched(m, e, candles)
         \/ \E m, e :
              /\ m \in Nat /\ e \in Nat /\ call.until <= MonthStart(m)
              /\ call' = [call EXCEPT !.missing = call.missing \ (m..(e - 1))]
              /\ UNCHANGED <<chunk, partial>> /\ InCall /\ call.pc = "fetch" /\ call.delta = {}
              /\ unfound \subseteq unfound'
<1>1. now \in Nat /\ splits \in Nat /\ listing \in Nat /\ CacheShape
  BY Sizes DEF SourceInv, CacheShape, world
<1>2. PICK m, e, end, left : RunFetched(m, e, end, left)
  BY <1>1, RunHands
<1>3. /\ m \in Nat /\ e \in Nat /\ m < e /\ e <= Months /\ end \in Int /\ call.delta = {}
      /\ end = (IF MonthStart(e) <= call.until THEN MonthStart(e) ELSE call.until)
      /\ left = call.missing \ (m..(e - 1)) /\ \A x \in m..(e - 1) : x \in call.missing
      /\ unfound' = unfound \cup LeftOut(MonthStart(m), end)
      /\ UNCHANGED <<chunk, partial, meta>> /\ InCall /\ call.pc = "fetch"
  BY <1>2 DEF RunFetched
<1>4. PICK u : u = call.until
  OBVIOUS
<1>5. /\ u \in Nat /\ u <= now /\ Boundary(u) /\ end = Reach(e, u)
      /\ MonthStart(e) \in Nat /\ end <= u /\ end <= 2 * NumSlots
      /\ u < MonthStart(e) => end = u
  <2>1. end = Reach(e, u)
    BY <1>3, <1>4 DEF Reach
  <2> QED
    BY <1>3, <1>4, <2>1, CallAsks
<1>6. MonthStart(m) \in Nat /\ MonthStart(m) < MonthStart(e) /\ CutsNone(MonthStart(m))
  BY <1>3, MonthStartIs, MonthStartGrows, MonthCutsNone
<1>7. CASE end <= MonthStart(m) /\ call' = [call EXCEPT !.missing = left]
  <2>1. u <= MonthStart(m)
    BY <1>3, <1>4, <1>5, <1>6, <1>7
  <2> QED
    BY <1>3, <1>4, <1>7, <2>1
<1>8. CASE \E got : /\ got = call.got \o GetCandles(MonthStart(m), end)
                    /\ call' = [Save(GetCandles(MonthStart(m), end), got, m, e) EXCEPT !.missing = left]
  <2>1. PICK candles : candles = GetCandles(MonthStart(m), end)
    OBVIOUS
  <2>2. PICK E : E = unfound' /\ unfound \subseteq E /\ LeftOut(MonthStart(m), end) \subseteq E
    BY <1>3
  <2>3. /\ candles \in Seq(Candle) /\ Ordered(candles) /\ FinalUpTo(candles, u)
        /\ Fits(SlotSet(candles), MonthStart(m), end, LeftOut(MonthStart(m), end))
        /\ end = u => AtCloses(SlotSet(candles))
    BY <1>1, <1>3, <1>5, <1>6, <2>1, FetchedFits
  <2>4. Fits(SlotSet(candles), MonthStart(m), end, E)
    BY <2>2, <2>3, MoreDays
  <2>5. InHand(m, e, u, candles, E)
    BY <1>5, <2>3, <2>4 DEF InHand
  <2>6. PICK got : /\ got = call.got \o candles
                   /\ call' = [Save(candles, got, m, e) EXCEPT !.missing = left]
    BY <1>8, <2>1
  <2>7. /\ call'.pc = "save" /\ call'.month = m /\ call'.runEnd = e
        /\ call'.candles = candles /\ call'.until = call.until /\ call'.got = got
        /\ call'.first = call.first /\ call'.last = call.last
        /\ call'.delta = call.delta /\ call'.missing = left
    <3>1. left \subseteq MonthNumbers
      BY <1>3 DEF InCall
    <3>2. InCall /\ m \in Nat /\ e \in Nat
      BY <1>3
    <3>3. call' = [Save(candles, got, m, e) EXCEPT !.missing = left]
      BY <2>6
    <3> QED
      BY <2>3, <3>1, <3>2, <3>3, AfterRun
  <2>8. InHand(m, e, call.until, candles, unfound') /\ unfound \subseteq unfound'
    BY <1>4, <2>2, <2>5
  <2>9. Fetched(m, e, candles)
    BY <1>3, <2>3, <2>6, <2>7, <2>8 DEF Fetched
  <2> QED
    BY <2>9
<1>9. \/ end <= MonthStart(m) /\ call' = [call EXCEPT !.missing = left]
      \/ \E got : /\ got = call.got \o GetCandles(MonthStart(m), end)
                  /\ call' = [Save(GetCandles(MonthStart(m), end), got, m, e) EXCEPT !.missing = left]
  BY <1>2 DEF RunFetched
<1> QED
  BY <1>7, <1>8, <1>9

\* The fetches preserve SourceInv.
LEMMA SourceFetch ==
  ASSUME IsCandles, SourceInv, CacheShape', UNCHANGED world, FetchDelta \/ FetchRun
  PROVE  SourceInv'
<1>1. /\ source \in Sources /\ source' = source /\ listing' = listing /\ now' = now
      /\ now \in Nat /\ now <= now' /\ ChunksFit /\ PartialsBegin /\ CallBegins /\ Disk
  BY DEF SourceInv, CacheShape, world
<1>2. ASSUME UNCHANGED <<chunk, partial>>, InCall, call.pc = "fetch", unfound \subseteq unfound',
             call'.until = call.until, call'.delta \subseteq call.delta
      PROVE  ChunksFit' /\ PartialsBegin' /\ CallBegins'
  BY <1>1, <1>2, ChunksStay, PartialsStay, BeginsStay
<1>3. CASE \E m, e, candles : Fetched(m, e, candles)
  <2>1. PICK m, e, candles : Fetched(m, e, candles)
    BY <1>3
  <2>2. PICK u, E : u = call.until /\ E = unfound'
    OBVIOUS
  <2>3. /\ m \in Nat /\ InHand(m, e, u, candles, E) /\ unfound \subseteq unfound'
        /\ call'.month = m /\ call'.runEnd = e /\ call'.candles = candles
        /\ call'.until = call.until /\ call'.delta \subseteq call.delta
        /\ UNCHANGED <<chunk, partial>> /\ InCall /\ call.pc = "fetch"
    BY <2>1, <2>2 DEF Fetched
  <2>4. CallHolds'
    <3>1. InHand(m, e, u, candles, E)'
      BY <1>1, <2>3, WorldStays
    <3>2. m \in Int /\ m <= call'.month
      BY <2>3
    <3> QED
      BY <2>2, <2>3, <3>1, <3>2 DEF CallHolds
  <2>5. ChunksFit' /\ PartialsBegin' /\ CallBegins'
    BY <1>2, <2>3
  <2> QED
    BY <1>1, <2>4, <2>5 DEF SourceInv
<1>4. CASE \E left : /\ call' = [call EXCEPT !.missing = left] /\ UNCHANGED <<chunk, partial>>
                     /\ InCall /\ call.pc = "fetch" /\ unfound \subseteq unfound'
  <2>1. call'.pc = "fetch" /\ call'.until = call.until /\ call'.delta = call.delta
    BY <1>4 DEF InCall
  <2>2. ChunksFit' /\ PartialsBegin' /\ CallBegins'
    BY <1>2, <1>4, <2>1
  <2> QED
    BY <1>1, <2>1, <2>2 DEF SourceInv, CallHolds
<1>5. (\E m, e, candles : Fetched(m, e, candles))
      \/ \E left : /\ call' = [call EXCEPT !.missing = left] /\ UNCHANGED <<chunk, partial>>
                   /\ InCall /\ call.pc = "fetch" /\ unfound \subseteq unfound'
  BY DeltaGives, RunGives
<1> QED
  BY <1>3, <1>4, <1>5

\* Every step does.
LEMMA NextSource ==
  ASSUME SourceInv, NextCaches \/ UNCHANGED worldVars
  PROVE  SourceInv'
<1>1. CacheShape /\ CacheShape'
  BY NextShape DEF SourceInv
<1>2. /\ now' \in Nat /\ now <= now' /\ source' = source /\ listing' = listing
      /\ UNCHANGED cacheVars \/ (IsCandles /\ CacheStep /\ UNCHANGED world)
  BY <1>1, WorldMoves DEF CacheShape
<1>3. CASE UNCHANGED cacheVars
  BY <1>1, <1>2, <1>3, SourceOutside
<1>4. CASE IsCandles /\ CacheStep /\ UNCHANGED world
  BY <1>1, <1>4, SourceCalls, SourcePromote, SourceClassify, SourceSave, SourceFetch
     DEF CacheStep
<1> QED
  BY <1>2, <1>3, <1>4

\* An empty cache satisfies it.
LEMMA InitSource == InitCaches => SourceInv
<1> SUFFICES ASSUME InitCaches PROVE SourceInv
  OBVIOUS
<1>1. chunk = << >> /\ partial = << >> /\ call = Idle /\ source \in Sources
  BY DEF InitCaches, InitWorld, InitCache
<1>2. DOMAIN chunk = {} /\ DOMAIN partial = {} /\ call.pc = "idle"
  BY <1>1 DEF Idle
<1> QED
  BY <1>1, <1>2, InitShape DEF SourceInv, ChunksFit, PartialsBegin, CallBegins, CallHolds

(***************************************************************************)
(* The invariant gives the property: a chunk fits its month, and of a      *)
(* partial chunk what precedes its last candle is there.                   *)
(***************************************************************************)
LEMMA SourceIsCache ==
  ASSUME SourceInv
  PROVE  CacheIsSound
<1>1. Disk /\ ChunksFit /\ PartialsBegin
  BY DEF SourceInv, CacheShape
<1>2. ASSUME NEW c, AllFinal(c), Ordered(c), NEW least, NEW most,
             least \subseteq SlotSet(c), SlotSet(c) \subseteq most
      PROVE  HoldsBetween(c, least, most)
  <2>1. Range(SlotsIn(c)) = SlotSet(c)
    BY DEF Range, SlotsIn, SlotSet
  <2> QED
    BY <1>2, <2>1 DEF HoldsBetween, Ordered
<1>3. ASSUME NEW m \in MonthNumbers
      PROVE  /\ \A k \in Certain(SlotsOf(m)) :
                  /\ k \in Certain(Slots) /\ k \in Nat /\ MonthOf(k) = m
                  /\ MonthStart(m) <= StartOf(k) /\ StartOf(k) < MonthStart(m + 1)
             /\ Existing(SlotsOf(m)) = Span(MonthStart(m), MonthStart(m + 1))
  <2>1. m \in Int
    BY Sizes DEF MonthNumbers
  <2>2. SlotsOf(m) \in SUBSET Slots
    BY DEF SlotsOf
  <2>3. \A k \in Certain(SlotsOf(m)) : k \in SlotsOf(m) /\ k \in Certain(Slots)
    BY <2>2, CertainIs
  <2>4. \A k \in Certain(SlotsOf(m)) : k \in Nat /\ MonthOf(k) = m
    BY <2>3, SlotIs DEF SlotsOf
  <2> QED
    BY <2>1, <2>3, <2>4, InMonth, MonthIsSpan
<1>4. ASSUME NEW m \in DOMAIN chunk
      PROVE  HoldsBetween(chunk[m], Assured(SlotsOf(m)), Existing(SlotsOf(m)))
  <2>1. PICK c, X : c = chunk[m] /\ X = SlotSet(c)
    OBVIOUS
  <2>2. m \in MonthNumbers
    BY <1>1 DEF Disk
  <2>3. AllFinal(c) /\ Ordered(c) /\ Fits(X, MonthStart(m), MonthStart(m + 1), unfound)
    BY <1>1, <2>1 DEF ChunksFit
  <2>4. \A k \in Assured(SlotsOf(m)) : k \in X
    BY <1>3, <2>2, <2>3 DEF Assured, Fits
  <2>5. \A k \in X : k \in Existing(SlotsOf(m))
    BY <1>3, <2>2, <2>3 DEF Fits
  <2> QED
    BY <1>2, <2>1, <2>3, <2>4, <2>5
<1>5. ASSUME NEW m \in DOMAIN partial
      PROVE  HoldsBetween(partial[m],
               {k \in Certain(SlotsOf(m)) : partial[m] # << >> /\ k <= Last(partial[m]).slot},
               Existing(SlotsOf(m)))
  <2>1. PICK p, X : p = partial[m] /\ X = SlotSet(p)
    OBVIOUS
  <2>2. m \in MonthNumbers /\ p \in Seq(Candle)
    BY <1>1, <2>1 DEF Disk
  <2>3. PICK b : Begun(m, p, b)
    BY <1>1, <2>1 DEF PartialsBegin
  <2>4. /\ AllFinal(p) /\ Ordered(p) /\ Gapless(X, MonthStart(m))
        /\ \A k \in X : k \in Span(MonthStart(m), MonthStart(m + 1))
    BY <2>1, <2>3 DEF Begun
  <2>5. ASSUME NEW k \in Certain(SlotsOf(m)), p # << >>, k <= Last(p).slot PROVE k \in X
    <3>1. PICK l : l = Last(p).slot
      OBVIOUS
    <3>2. l \in X
      <4>1. Len(p) \in DOMAIN p
        BY <2>2, <2>5, EmptySeq
      <4> QED
        BY <2>1, <3>1, <4>1 DEF Last, SlotSet
    <3>3. MonthOf(l) = m
      <4>1. m \in Int /\ l \in Nat
        BY <2>1, <2>2, <3>2, SlotSetIs, Sizes DEF MonthNumbers
      <4>2. MonthStart(m) <= StartOf(l) /\ StartOf(l) < MonthStart(m + 1)
        BY <2>4, <3>2 DEF Span
      <4> QED
        BY <4>1, <4>2, InMonth
    <3>4. k \in Certain(Slots) /\ MonthStart(m) <= StartOf(k) /\ MonthOf(k) = MonthOf(l) /\ k <= l
      BY <1>3, <2>2, <2>5, <3>1, <3>3
    <3> QED
      BY <2>4, <3>2, <3>4 DEF Gapless
  <2>6. \A k \in X : k \in Existing(SlotsOf(m))
    BY <1>3, <2>2, <2>4
  <2>7. {k \in Certain(SlotsOf(m)) : p # << >> /\ k <= Last(p).slot} \subseteq X
    BY <2>5
  <2>8. HoldsBetween(p, {k \in Certain(SlotsOf(m)) : p # << >> /\ k <= Last(p).slot},
                     Existing(SlotsOf(m)))
    BY <1>2, <2>1, <2>4, <2>6, <2>7
  <2> QED
    BY <2>1, <2>8
<1> QED
  BY <1>4, <1>5 DEF CacheIsSound

(***************************************************************************)
(* A cached month holds every candle its source has of it, once, in order  *)
(* and final, but for the three gaps that CacheIsSound names, and a month  *)
(* begun has no other gap up to its last candle: for any calendar, trading *)
(* sessions, quiet slots and late files, any listing, and any order of the *)
(* calls, failures and deaths.                                             *)
(***************************************************************************)
THEOREM CacheHoldsTheSource == SpecCaches => []CacheIsSound
<1>1. InitCaches => SourceInv
  BY InitSource
<1>2. SourceInv /\ [NextCaches]_<<world, cacheVars, dumpVars>> => SourceInv'
  BY NextSource DEF worldVars
<1>3. SourceInv => CacheIsSound
  BY SourceIsCache
<1> QED
  BY <1>1, <1>2, <1>3, PTL DEF SpecCaches

-----------------------------------------------------------------------------
(* What a call returns. *)

(* c holds a candle of each slot of A, once. *)
Once(c, A) ==
  /\ \A i \in DOMAIN c : c[i].slot \in A
  /\ \A k \in A : \E i \in DOMAIN c : c[i].slot = k
  /\ \A i, j \in DOMAIN c : c[i].slot = c[j].slot => i = j

(* A chunk is of a month that is over. *)
ChunksOver == \A m \in DOMAIN chunk : MonthStart(m + 1) <= DataAvailableUntil

(* What a call has gathered of: the months asked for that are not left to   *)
(* fetch.                                                                  *)
Gathered ==
  {k \in Existing(Slots) : /\ MonthOf(k) \in call.first..call.last
                           /\ MonthOf(k) \notin call.delta /\ MonthOf(k) \notin call.missing
                           /\ StartOf(k) < call.until}

(* Of these it has what is sure, but for the days that had no file.         *)
Sure(k, days) == k \in Certain(Slots) /\ (source = "vision" => DayOf(k) \notin days)
(***************************************************************************)
(* What is left to fetch is asked for, in one set or the other; what is    *)
(* gathered is of the rest, each slot once, and nothing sure is missing.   *)
(***************************************************************************)
HeldInv ==
  call.pc \in {"fetch", "save", "promote"} =>
    /\ \A m \in call.delta : m \notin call.missing
    /\ \A m \in call.delta \cup call.missing : m \in call.first..call.last
    /\ call.got \in Seq(Candle) /\ Once(call.got, SlotSet(call.got))
    /\ \A k \in SlotSet(call.got) : k \in Gathered
    /\ \A k \in Gathered : Sure(k, unfound) => k \in SlotSet(call.got)

\* What is in order is there once.
LEMMA InOrderOnce ==
  ASSUME NEW c \in Seq(Candle), NEW A \in SUBSET Slots, InOrder(c, A)
  PROVE  Once(c, A)
<1> SUFFICES ASSUME NEW i \in DOMAIN c, NEW j \in DOMAIN c, c[i].slot = c[j].slot PROVE i = j
  BY DEF InOrder, Once
<1>1. i \in Nat /\ j \in Nat
  OBVIOUS
<1>2. c[i].slot \in Int /\ c[j].slot \in Int
  <2>1. c[i].slot \in Slots /\ c[j].slot \in Slots
    BY DEF InOrder
  <2> QED
    BY <2>1, SlotIs
<1>3. CASE i < j
  BY <1>2, <1>3 DEF InOrder
<1>4. CASE j < i
  BY <1>2, <1>4 DEF InOrder
<1> QED
  BY <1>1, <1>3, <1>4

\* Two sequences of different slots, joined.
LEMMA OnceConcat ==
  ASSUME NEW c \in Seq(Candle), NEW d \in Seq(Candle), NEW s, s = c \o d,
         NEW A, NEW B, Once(c, A), Once(d, B), \A k \in A : k \notin B
  PROVE  s \in Seq(Candle) /\ Once(s, A \cup B)
<1>1. PICK m, n : m = Len(c) /\ n = Len(d)
  OBVIOUS
<1>2. /\ m \in Nat /\ n \in Nat /\ DOMAIN c = 1..m /\ DOMAIN d = 1..n /\ DOMAIN s = 1..(m + n)
      /\ \A i \in 1..m : s[i] = c[i]
      /\ \A i \in 1..n : s[m + i] = d[i]
  BY <1>1, ConcatIs
<1>3. s \in Seq(Candle)
  BY ConcatIs
<1>4. \A i \in DOMAIN s : \/ i \in 1..m /\ s[i] = c[i]
                          \/ i - m \in 1..n /\ s[i] = d[i - m]
  <2> SUFFICES ASSUME NEW i \in DOMAIN s, i \notin 1..m PROVE i - m \in 1..n /\ s[i] = d[i - m]
    BY <1>2
  <2>1. i - m \in 1..n /\ m + (i - m) = i
    BY <1>2
  <2>2. s[m + (i - m)] = d[i - m]
    BY <1>2, <2>1
  <2> QED
    BY <2>1, <2>2
<1>5. \A i \in DOMAIN s : s[i].slot \in A \cup B
  BY <1>2, <1>4 DEF Once
<1>6. ASSUME NEW k \in A \cup B PROVE \E i \in DOMAIN s : s[i].slot = k
  <2>1. CASE k \in A
    <3>1. PICK j \in 1..m : c[j].slot = k
      BY <1>2, <2>1 DEF Once
    <3>2. j \in DOMAIN s
      BY <1>2
    <3> QED
      BY <1>2, <3>1, <3>2
  <2>2. CASE k \in B
    <3>1. PICK j \in 1..n : d[j].slot = k
      BY <1>2, <2>2 DEF Once
    <3>2. m + j \in DOMAIN s
      BY <1>2
    <3> QED
      BY <1>2, <3>1, <3>2
  <2> QED
    BY <2>1, <2>2
<1>7. ASSUME NEW i \in DOMAIN s, NEW j \in DOMAIN s, s[i].slot = s[j].slot PROVE i = j
  <2>0. i \in Int /\ j \in Int
    BY <1>2
  <2>1. CASE i \in 1..m /\ j \in 1..m
    BY <1>2, <1>7, <2>1 DEF Once
  <2>2. CASE i \in 1..m /\ j \notin 1..m
    <3>1. s[i].slot \in A /\ s[j].slot \in B
      BY <1>2, <1>4, <2>2 DEF Once
    <3> QED
      BY <1>7, <3>1
  <2>3. CASE i \notin 1..m /\ j \in 1..m
    <3>1. s[j].slot \in A /\ s[i].slot \in B
      BY <1>2, <1>4, <2>3 DEF Once
    <3> QED
      BY <1>7, <3>1
  <2>4. CASE i \notin 1..m /\ j \notin 1..m
    <3>1. i - m \in 1..n /\ s[i] = d[i - m] /\ j - m \in 1..n /\ s[j] = d[j - m]
      BY <1>4, <2>4
    <3>2. i - m = j - m
      BY <1>2, <1>7, <3>1 DEF Once
    <3> QED
      BY <1>2, <2>0, <3>2
  <2> QED
    BY <2>1, <2>2, <2>3, <2>4
<1> QED
  BY <1>3, <1>5, <1>6, <1>7 DEF Once

\* A sequence that has each slot of A once has the slots A.
LEMMA OnceIs ==
  ASSUME NEW c, NEW A, Once(c, A)
  PROVE  SlotSet(c) = A /\ Once(c, SlotSet(c))
<1>1. \A k : k \in SlotSet(c) <=> k \in A
  BY DEF Once, SlotSet
<1>2. SlotSet(c) = A
  BY <1>1
<1> QED
  BY <1>2

\* What is sure stays so, or had no file since.
LEMMA SureStays ==
  ASSUME source' = source, listing' = listing, NEW D, NEW E, D \subseteq E, NEW k
  PROVE  Sure(k, E)' <=> Sure(k, E) /\ (Sure(k, E) => Sure(k, D))
<1>1. Certain(Slots)' = Certain(Slots)
  BY WorldStays
<1> QED
  BY <1>1 DEF Sure

(* The slots in hand are those of the months from m to e. *)
LEMMA HandedMonths ==
  ASSUME NEW m \in Int, NEW e \in Int, NEW u, NEW k \in Existing(Slots)
  PROVE  k \in Handed(m, e, u) <=> m <= MonthOf(k) /\ MonthOf(k) < e /\ StartOf(k) < u
<1>1. PICK x : x = MonthOf(k)
  OBVIOUS
<1>2. /\ k \in Slots /\ k \in Nat /\ x \in Nat /\ StartOf(k) = 2 * k /\ EndOf(k) = 2 * k + 2
      /\ MonthStart(x) <= StartOf(k) /\ EndOf(k) <= MonthStart(x + 1)
  <2>1. k \in Slots
    BY DEF Existing
  <2>2. k \in Nat /\ x \in MonthNumbers /\ StartOf(k) = 2 * k /\ EndOf(k) = StartOf(k) + 2
        /\ MonthStart(x) <= StartOf(k) /\ EndOf(k) <= MonthStart(x + 1)
    BY <1>1, <2>1, SlotIs
  <2> QED
    BY <2>1, <2>2, Sizes DEF MonthNumbers
<1>3. /\ MonthStart(m) \in Int /\ MonthStart(e) \in Int
      /\ MonthStart(x) \in Int /\ MonthStart(x + 1) \in Int /\ x + 1 \in Int
  <2>1. x \in Int /\ x + 1 \in Int
    BY <1>2
  <2> QED
    BY <2>1, MonthStartIs
<1>4. m <= x <=> MonthStart(m) <= StartOf(k)
  <2>1. CASE m <= x
    <3>1. m = x \/ m < x
      BY <1>2, <2>1
    <3>2. m < x => MonthStart(m) < MonthStart(x)
      BY <1>2, MonthStartGrows
    <3> QED
      BY <1>2, <1>3, <2>1, <3>1, <3>2
  <2>2. CASE x < m
    <3>1. x + 1 = m \/ x + 1 < m
      BY <1>2, <2>2
    <3>2. x + 1 < m => MonthStart(x + 1) < MonthStart(m)
      BY <1>3, MonthStartGrows
    <3> QED
      BY <1>2, <1>3, <2>2, <3>1, <3>2
  <2> QED
    BY <1>2, <2>1, <2>2
<1>5. x < e <=> StartOf(k) < MonthStart(e)
  <2>1. CASE x < e
    <3>1. x + 1 = e \/ x + 1 < e
      BY <1>2, <2>1
    <3>2. x + 1 < e => MonthStart(x + 1) < MonthStart(e)
      BY <1>3, MonthStartGrows
    <3> QED
      BY <1>2, <1>3, <2>1, <3>1, <3>2
  <2>2. CASE e <= x
    <3>1. e = x \/ e < x
      BY <1>2, <2>2
    <3>2. e < x => MonthStart(e) < MonthStart(x)
      BY <1>2, MonthStartGrows
    <3> QED
      BY <1>2, <1>3, <2>2, <3>1, <3>2
  <2> QED
    BY <1>2, <2>1, <2>2
<1> QED
  BY <1>1, <1>4, <1>5 DEF Handed

\* What a call has in hand is of the slots of its months.
LEMMA HandedIs ==
  ASSUME NEW m \in Int, NEW e \in Int, NEW u \in Int, NEW k \in Existing(Slots)
  PROVE  k \in Handed(m, e, u) <=> k \in Span(MonthStart(m), Reach(e, u))
<1>1. StartOf(k) \in Int /\ MonthStart(e) \in Int
  BY CertainIs, MonthStartIs
<1>2. StartOf(k) < Reach(e, u) <=> StartOf(k) < MonthStart(e) /\ StartOf(k) < u
  BY <1>1 DEF Reach
<1> QED
  BY <1>2 DEF Handed, Span

(***************************************************************************)
(* The chunks a call reads, one after the other.                           *)
(***************************************************************************)

(* seqs one after the other, up to each place. *)
Flat(f, seqs, x) == f = [i \in 1..x |-> IF i = 1 THEN seqs[i] ELSE f[i - 1] \o seqs[i]]

\* The recursive definition defines a function.
LEMMA FlatExists ==
  ASSUME NEW n \in Nat \ {0}, NEW seqs
  PROVE  \E f : Flat(f, seqs, n)
<1>1. PICK G : G = {x \in Nat : x # 0 /\ ~\E f : Flat(f, seqs, x)}
  OBVIOUS
<1>2. ASSUME G # {} PROVE FALSE
  <2>1. PICK x \in G : x \in Nat /\ \A y \in G : x <= y
    <3>1. G \in SUBSET Nat
      BY <1>1
    <3> QED
      BY <1>2, <3>1, LeastOf
  <2>2. CASE x = 1
    <3>1. PICK f : f = [i \in 1..1 |-> seqs[1]]
      OBVIOUS
    <3>2. [i \in 1..1 |-> IF i = 1 THEN seqs[i] ELSE f[i - 1] \o seqs[i]] = [i \in 1..1 |-> seqs[1]]
      OBVIOUS
    <3>3. Flat(f, seqs, x)
      BY <2>2, <3>1, <3>2 DEF Flat
    <3> QED
      BY <1>1, <2>1, <3>3
  <2>3. CASE x # 1
    <3>1. x - 1 \in Nat /\ x - 1 # 0 /\ x - 1 \notin G
      BY <1>1, <2>1, <2>3
    <3>2. PICK f : Flat(f, seqs, x - 1)
      BY <1>1, <3>1
    <3>3. PICK last : last = f[x - 1] \o seqs[x]
      OBVIOUS
    <3>4. PICK g : g = [i \in 1..x |-> IF i = x THEN last ELSE f[i]]
      OBVIOUS
    <3>5. ASSUME NEW i \in 1..x
          PROVE  (IF i = x THEN last ELSE f[i]) = IF i = 1 THEN seqs[i] ELSE g[i - 1] \o seqs[i]
      <4>1. CASE i = x
        <5>1. i - 1 \in 1..x /\ i - 1 # x /\ i # 1
          BY <2>1, <2>3, <4>1
        <5>2. g[i - 1] = f[i - 1]
          BY <3>4, <5>1
        <5> QED
          BY <3>3, <4>1, <5>1, <5>2
      <4>2. CASE i # x
        <5>1. i \in 1..(x - 1)
          BY <2>1, <4>2
        <5>2. f[i] = IF i = 1 THEN seqs[i] ELSE f[i - 1] \o seqs[i]
          BY <3>2, <5>1 DEF Flat
        <5>3. i # 1 => g[i - 1] = f[i - 1]
          <6>1. i # 1 => i - 1 \in 1..x /\ i - 1 # x
            BY <2>1, <4>2, <5>1
          <6> QED
            BY <3>4, <6>1
        <5> QED
          BY <4>2, <5>2, <5>3
      <4> QED
        BY <4>1, <4>2
    <3>6. g = [i \in 1..x |-> IF i = 1 THEN seqs[i] ELSE g[i - 1] \o seqs[i]]
      BY <3>4, <3>5
    <3>7. Flat(g, seqs, x)
      BY <3>6 DEF Flat
    <3> QED
      BY <1>1, <2>1, <3>7
  <2> QED
    BY <2>2, <2>3
<1> QED
  BY <1>1, <1>2

\* Sequences in order, of slots that ascend from one to the next.
LEMMA FlattenIs ==
  ASSUME NEW n \in Nat \ {0}, NEW seqs \in [1..n -> Seq(Candle)], NEW S \in [1..n -> SUBSET Slots],
         \A i \in 1..n : InOrder(seqs[i], S[i]),
         \A i, j \in 1..n : i < j => \A x \in S[i], y \in S[j] : x < y
  PROVE  /\ FlattenSeq(seqs) \in Seq(Candle)
         /\ InOrder(FlattenSeq(seqs), UNION {S[i] : i \in 1..n})
<1>1. PICK f : f = CHOOSE g : Flat(g, seqs, n)
  OBVIOUS
<1>2. Flat(f, seqs, n)
  BY <1>1, FlatExists
<1>3. Len(seqs) = n
  <2>1. seqs \in Seq(Seq(Candle))
    BY SeqDef
  <2> QED
    BY <2>1
<1>4. FlattenSeq(seqs) = f[n]
  <2>1. FlattenSeq(seqs) =
          (CHOOSE g : g = [i \in 1..Len(seqs) |-> IF i = 1 THEN seqs[i] ELSE g[i - 1] \o seqs[i]])[Len(seqs)]
    BY <1>3 DEF FlattenSeq
  <2>2. f = CHOOSE g : g = [i \in 1..n |-> IF i = 1 THEN seqs[i] ELSE g[i - 1] \o seqs[i]]
    BY <1>1 DEF Flat
  <2> QED
    BY <1>3, <2>1, <2>2
<1>5. PICK U : U = [x \in 1..n |-> UNION {S[i] : i \in 1..x}]
  OBVIOUS
<1>6. PICK G : G = {x \in 1..n : ~(f[x] \in Seq(Candle) /\ InOrder(f[x], U[x]))}
  OBVIOUS
<1>7. ASSUME G # {} PROVE FALSE
  <2>1. PICK x \in G : x \in 1..n /\ \A y \in G : x <= y
    <3>1. G \in SUBSET Nat
      BY <1>6
    <3> QED
      BY <1>6, <1>7, <3>1, LeastOf
  <2>2. CASE x = 1
    <3>1. f[1] = seqs[1]
      BY <1>2, <2>1, <2>2 DEF Flat
    <3>2. \A k : k \in U[1] <=> k \in S[1]
      BY <1>5, <2>1, <2>2
    <3>3. U[1] = S[1]
      BY <3>2
    <3> QED
      BY <1>6, <2>1, <2>2, <3>1, <3>3
  <2>3. CASE x # 1
    <3>1. x - 1 \in 1..n /\ x - 1 \notin G
      BY <2>1, <2>3
    <3>2. PICK c : c = f[x - 1]
      OBVIOUS
    <3>3. c \in Seq(Candle) /\ InOrder(c, U[x - 1])
      BY <1>6, <3>1, <3>2
    <3>4. f[x] = c \o seqs[x]
      BY <1>2, <2>1, <2>3, <3>2 DEF Flat
    <3>5. PICK A, B : A = U[x - 1] /\ B = S[x]
      OBVIOUS
    <3>6. \A k \in A : \E i \in 1..(x - 1) : k \in S[i]
      BY <1>5, <3>1, <3>5
    <3>7. A \in SUBSET Slots /\ B \in SUBSET Slots /\ seqs[x] \in Seq(Candle) /\ InOrder(seqs[x], B)
      <4>1. \A i \in 1..(x - 1) : i \in 1..n
        BY <2>1
      <4> QED
        BY <2>1, <3>5, <3>6, <4>1
    <3>8. \A j \in A, k \in B : j < k
      <4> SUFFICES ASSUME NEW j \in A, NEW k \in B PROVE j < k
        OBVIOUS
      <4>1. PICK i \in 1..(x - 1) : j \in S[i]
        BY <3>6
      <4>2. i \in 1..n /\ i < x
        BY <2>1, <4>1
      <4> QED
        BY <2>1, <3>5, <4>1, <4>2
    <3>9. U[x] = A \cup B
      <4>1. \A k : k \in U[x] <=> \E i \in 1..x : k \in S[i]
        BY <1>5, <2>1
      <4>2. \A k : k \in A <=> \E i \in 1..(x - 1) : k \in S[i]
        BY <1>5, <3>1, <3>5
      <4>3. \A i \in 1..x : i \in 1..(x - 1) \/ i = x
        BY <2>1
      <4>4. \A i \in 1..(x - 1) : i \in 1..x
        BY <2>1
      <4>5. x \in 1..x
        BY <2>1
      <4>6. \A k : k \in U[x] <=> k \in A \cup B
        BY <3>5, <4>1, <4>2, <4>3, <4>4, <4>5
      <4> QED
        BY <4>6
    <3>10. f[x] \in Seq(Candle)
      BY <3>3, <3>4, <3>7, ConcatIs
    <3>11. InOrder(c \o seqs[x], A \cup B)
      BY <3>3, <3>5, <3>7, <3>8, InOrderConcat
    <3> QED
      BY <1>6, <2>1, <3>4, <3>9, <3>10, <3>11
  <2> QED
    BY <2>2, <2>3
<1>8. f[n] \in Seq(Candle) /\ InOrder(f[n], U[n])
  BY <1>6, <1>7
<1>9. U[n] = UNION {S[i] : i \in 1..n}
  BY <1>5
<1> QED
  BY <1>4, <1>8, <1>9

\* A month that is over stays so.
LEMMA OverStays ==
  ASSUME ChunksOver, source' = source, now \in Nat, now' \in Nat, now <= now',
         \A m \in DOMAIN chunk : m \in Nat, \A m \in DOMAIN chunk' : m \in DOMAIN chunk
  PROVE  ChunksOver'
<1>1. PICK b \in Nat : b = DataAvailableUntil
  BY UntilGrows
<1>2. PICK c \in Nat : c = DataAvailableUntil' /\ b <= c
  BY <1>1, UntilGrows
<1>3. ASSUME NEW m \in DOMAIN chunk' PROVE MonthStart(m + 1) <= c
  <2>1. MonthStart(m + 1) <= b /\ m + 1 \in Int
    BY <1>1 DEF ChunksOver
  <2>2. MonthStart(m + 1) \in Int
    BY <2>1, MonthStartIs
  <2> QED
    BY <1>2, <2>1, <2>2
<1> QED
  BY <1>2, <1>3 DEF ChunksOver

\* Chunks are of months.
LEMMA ChunkMonths ==
  ASSUME CacheShape
  PROVE  \A m \in DOMAIN chunk : m \in Nat
BY Sizes DEF CacheShape, Disk, MonthNumbers

\* What is gathered stays so while its months are saved.
LEMMA GatheredStays ==
  ASSUME source' = source, listing' = listing, call'.first = call.first, call'.last = call.last,
         call'.delta = call.delta, call'.missing = call.missing, call'.until = call.until,
         call'.got = call.got, unfound' = unfound,
         HeldInv, call.pc \in {"fetch", "save", "promote"}
  PROVE  HeldInv'
<1>1. PICK c, D : c = call.got /\ c = call'.got /\ D = unfound /\ D = unfound'
  OBVIOUS
<1>2. Gathered' = Gathered
  <2>1. \A S : Existing(S)' = Existing(S)
    BY WorldStays
  <2> QED
    BY <2>1 DEF Gathered
<1>3. \A k : Sure(k, D)' <=> Sure(k, D)
  BY SureStays
<1>4. /\ \A m \in call.delta : m \notin call.missing
      /\ \A m \in call.delta \cup call.missing : m \in call.first..call.last
      /\ c \in Seq(Candle) /\ Once(c, SlotSet(c))
      /\ \A k \in SlotSet(c) : k \in Gathered
      /\ \A k \in Gathered : Sure(k, D) => k \in SlotSet(c)
  BY <1>1 DEF HeldInv
<1>5. Once(call.got, SlotSet(call.got))'
  BY <1>1, <1>4
<1>6. \A k \in Gathered' : Sure(k, unfound)' => k \in SlotSet(c)
  <2> SUFFICES ASSUME NEW k \in Gathered', Sure(k, unfound)' PROVE k \in SlotSet(c)
    OBVIOUS
  <2>1. Sure(k, D)'
    BY <1>1
  <2> QED
    BY <1>2, <1>3, <1>4, <2>1
<1> QED
  BY <1>1, <1>2, <1>4, <1>5, <1>6 DEF HeldInv

\* The steps at which nothing is gathered.
LEMMA HeldCalls ==
  ASSUME SourceInv, ChunksOver, UNCHANGED world,
         \/ \E first, last \in MonthNumbers : first <= last /\ Request(first, last)
         \/ OnCacheOpen \/ DropStale \/ WriteMeta \/ Return \/ Raise \/ Crash
  PROVE  HeldInv' /\ ChunksOver'
<1>1. /\ source' = source /\ now' = now /\ now \in Nat /\ \A m \in DOMAIN chunk : m \in Nat
  BY ChunkMonths DEF SourceInv, CacheShape, world
<1>2. call'.pc \notin {"fetch", "save", "promote"}
  BY CallsFetchNothing
<1>3. \A m \in DOMAIN chunk' : m \in DOMAIN chunk
  <2>1. CASE DropStale
    BY <2>1 DEF DropStale, Without, Restrict
  <2>2. CASE ~DropStale
    <3>1. chunk' = chunk
      BY <2>2 DEF Request, OnCacheOpen, WriteMeta, Return, Raise, Crash
    <3> QED
      BY <3>1
  <2> QED
    BY <2>1, <2>2
<1>4. ChunksOver'
  BY <1>1, <1>3, OverStays
<1> QED
  BY <1>2, <1>4 DEF HeldInv

(***************************************************************************)
(* Nothing is gathered by a save; a chunk is of a month that was over when *)
(* the call began.                                                         *)
(***************************************************************************)
LEMMA HeldSaves ==
  ASSUME SourceInv, HeldInv, ChunksOver, UNCHANGED world, SaveMonth \/ Promote
  PROVE  HeldInv' /\ ChunksOver'
<1>1. /\ source' = source /\ listing' = listing /\ now' = now /\ now \in Nat
      /\ \A m \in DOMAIN chunk : m \in Nat
      /\ CacheShape /\ CallBegins /\ unfound' = unfound
  BY ChunkMonths DEF SourceInv, CacheShape, world, SaveMonth, Promote
<1>2. CASE Promote
  <2>1. InCall /\ call.pc = "promote" /\ chunk' = chunk
    BY <1>1, <1>2 DEF Promote, CacheShape, Idle
  <2>2. \E step : call' = [call EXCEPT !.month = call.month + 1, !.pc = step]
    BY <1>2 DEF Promote
  <2>3. /\ call'.first = call.first /\ call'.last = call.last /\ call'.delta = call.delta
        /\ call'.missing = call.missing /\ call'.until = call.until /\ call'.got = call.got
    BY <2>1, <2>2 DEF InCall
  <2>4. HeldInv'
    BY <1>1, <2>1, <2>3, GatheredStays
  <2>5. ChunksOver'
    BY <1>1, <2>1, OverStays
  <2> QED
    BY <2>4, <2>5
<1>3. CASE SaveMonth
  <2>1. InCall /\ call.pc = "save"
    BY <1>1, <1>3, SaveMonthIs
  <2>2. PICK m, saved, step : m = call.month /\ m \in Nat /\ SavedAs(m, saved, step)
    BY <1>1, <1>3, SaveMonthIs
  <2>3. /\ call'.first = call.first /\ call'.last = call.last /\ call'.delta = call.delta
        /\ call'.missing = call.missing /\ call'.until = call.until /\ call'.got = call.got
    BY <2>1, <2>2 DEF InCall, SavedAs
  <2>4. HeldInv'
    BY <1>1, <2>1, <2>3, GatheredStays
  <2>5. PICK b \in Nat : b = DataAvailableUntil /\ b = DataAvailableUntil'
    BY <1>1, UntilIsTime DEF DataAvailableUntil
  <2>6. CASE chunk' = chunk
    BY <1>1, <2>4, <2>6, OverStays
  <2>7. CASE MonthStart(m + 1) <= call.until /\ chunk' = Written(chunk, m, saved)
    <3>1. MonthStart(m + 1) <= b
      <4>1. call.until <= b /\ call.until \in Int
        BY <1>1, <2>1, <2>5 DEF CallBegins, InCall
      <4>2. MonthStart(m + 1) \in Int
        BY <2>2, MonthStartIs
      <4> QED
        BY <2>7, <4>1, <4>2
    <3>2. \A n \in DOMAIN chunk' : n \in DOMAIN chunk \/ n = m
      BY <2>7 DEF Written
    <3> QED
      BY <2>4, <2>5, <3>1, <3>2 DEF ChunksOver
  <2> QED
    BY <2>2, <2>4, <2>6, <2>7 DEF SavedAs
<1> QED
  BY <1>2, <1>3

\* A fetch gathers of the slots of its months, none of which was there.
LEMMA HeldFetches ==
  ASSUME IsCandles, SourceInv, HeldInv, ChunksOver, UNCHANGED world, FetchDelta \/ FetchRun
  PROVE  HeldInv' /\ ChunksOver'
<1>1. /\ source' = source /\ listing' = listing /\ now' = now /\ now \in Nat
      /\ \A m \in DOMAIN chunk : m \in Nat
      /\ CacheShape /\ CallBegins
  BY ChunkMonths DEF SourceInv, CacheShape, world
<1>2. \A k \in Existing(Slots) : k \in Slots /\ StartOf(k) \in Nat /\ MonthOf(k) \in Nat
  <2>1. \A k \in Existing(Slots) : k \in Slots
    BY DEF Existing
  <2> QED
    BY <2>1, SlotIs, Sizes DEF MonthNumbers
<1>3. PICK E : E = Existing(Slots) /\ E = Existing(Slots)'
  BY <1>1, WorldStays
<1>4. PICK D, F : D = unfound /\ F = unfound'
  OBVIOUS
<1>5. \A k : k \in Certain(Slots) => k \in E
  BY <1>3, CertainIs
<1>6. \A k : Sure(k, F) => k \in E
  BY <1>5 DEF Sure
<1>7. ASSUME D \subseteq F, NEW k PROVE Sure(k, F)' <=> Sure(k, F) /\ (Sure(k, F) => Sure(k, D))
  BY <1>1, <1>7, SureStays
<1>8. CASE \E m, e, candles : Fetched(m, e, candles)
  <2>1. PICK m, e, candles : Fetched(m, e, candles)
    BY <1>8
  <2>2. PICK u : u = call.until
    OBVIOUS
  <2>3. /\ m \in Nat /\ e \in Nat /\ m < e /\ candles \in Seq(Candle)
        /\ InHand(m, e, u, candles, F) /\ D \subseteq F
        /\ call'.until = u /\ call'.first = call.first /\ call'.last = call.last
        /\ call'.got = call.got \o candles
        /\ chunk' = chunk /\ InCall /\ call.pc = "fetch" /\ call'.pc = "save"
    BY <1>4, <2>1, <2>2 DEF Fetched
  <2>4. u \in Nat
    BY <2>2, <2>3 DEF InCall
  <2>5. PICK R, R1 : R = call.delta \cup call.missing /\ R1 = call'.delta \cup call'.missing
    OBVIOUS
  <2>6. /\ \A x : x \in R1 <=> x \in R /\ x \notin m..(e - 1)
        /\ \A x \in m..(e - 1) : x \in R
        /\ \A x \in call'.delta : x \notin call'.missing
    <3>1. \A x \in call.delta : x \notin call.missing
      BY <2>3 DEF HeldInv
    <3>2. CASE /\ e = m + 1 /\ m \in call.delta
               /\ call'.delta = call.delta \ {m} /\ call'.missing = call.missing
      <4>1. \A x : x \in m..(e - 1) <=> x = m
        BY <2>3, <3>2
      <4> QED
        BY <2>5, <3>1, <3>2, <4>1
    <3>3. CASE /\ \A x \in m..(e - 1) : x \in call.missing
               /\ call'.delta = call.delta /\ call'.missing = call.missing \ (m..(e - 1))
      BY <2>5, <3>1, <3>3
    <3> QED
      BY <2>1, <3>2, <3>3 DEF Fetched
  <2>7. PICK G, H : G = Gathered /\ H = Handed(m, e, u)
    OBVIOUS
  <2>8. \A k \in H : k \in E
    BY <1>3, <2>7 DEF Handed
  <2>9. \A k \in E : k \in H <=> MonthOf(k) \in m..(e - 1) /\ StartOf(k) < u
    BY <1>2, <1>3, <2>3, <2>4, <2>7, HandedMonths
  <2>10. \A k : k \in G <=> /\ k \in E /\ MonthOf(k) \in call.first..call.last
                            /\ MonthOf(k) \notin R /\ StartOf(k) < u
    BY <1>3, <2>2, <2>5, <2>7 DEF Gathered
  <2>11. \A k : k \in Gathered' <=> /\ k \in E /\ MonthOf(k) \in call.first..call.last
                                    /\ MonthOf(k) \notin R1 /\ StartOf(k) < u
    BY <1>3, <2>3, <2>5 DEF Gathered
  <2>12. \A x \in R : x \in call.first..call.last
    BY <2>3, <2>5 DEF HeldInv
  <2>13. \A k : k \in Gathered' <=> k \in G \/ k \in H
    BY <2>6, <2>8, <2>9, <2>10, <2>11, <2>12
  <2>14. \A k \in G : k \notin H
    BY <2>6, <2>8, <2>9, <2>10
  <2>15. PICK c, A, B : c = call.got /\ A = SlotSet(c) /\ B = SlotSet(candles)
    OBVIOUS
  <2>16. /\ c \in Seq(Candle) /\ Once(c, A) /\ \A k \in A : k \in G
         /\ \A k \in G : Sure(k, D) => k \in A
    BY <1>4, <2>3, <2>7, <2>15 DEF HeldInv
  <2>17. /\ Ordered(candles) /\ Fits(B, MonthStart(m), Reach(e, u), F)
    BY <2>3, <2>15 DEF InHand
  <2>18. Once(candles, B)
    <3>1. InOrder(candles, B) /\ B \in SUBSET Slots
      BY <2>3, <2>15, <2>17, SlotSetIs
    <3> QED
      BY <2>3, <3>1, InOrderOnce
  <2>19. \A k \in E : k \in H <=> k \in Span(MonthStart(m), Reach(e, u))
    BY <1>3, <2>3, <2>4, <2>7, HandedIs
  <2>20. \A k \in B : k \in H
    BY <1>3, <2>17, <2>19 DEF Fits, Span
  <2>21. ASSUME NEW k \in H, Sure(k, F) PROVE k \in B
    <3>1. k \in Span(MonthStart(m), Reach(e, u))
      BY <2>8, <2>19
    <3> QED
      BY <2>17, <2>21, <3>1 DEF Fits, Sure, Span
  <2>22. PICK got : got = c \o candles
    OBVIOUS
  <2>23. got \in Seq(Candle) /\ Once(got, A \cup B)
    <3>1. \A k \in A : k \notin B
      BY <2>14, <2>16, <2>20
    <3> QED
      BY <2>3, <2>16, <2>18, <2>22, <3>1, OnceConcat
  <2>24. call'.got = got /\ SlotSet(got) = A \cup B /\ Once(got, SlotSet(got))
    BY <2>3, <2>15, <2>22, <2>23, OnceIs
  <2>25. \A k \in SlotSet(got) : k \in Gathered'
    BY <2>13, <2>16, <2>20, <2>24
  <2>26. \A k \in Gathered' : Sure(k, F)' => k \in SlotSet(got)
    <3> SUFFICES ASSUME NEW k \in Gathered', Sure(k, F)' PROVE k \in SlotSet(got)
      OBVIOUS
    <3>1. Sure(k, F) /\ Sure(k, D)
      BY <1>7, <2>3
    <3> QED
      BY <2>13, <2>16, <2>21, <2>24, <3>1
  <2>27. \A x \in call'.delta \cup call'.missing : x \in call'.first..call'.last
    BY <2>3, <2>5, <2>6, <2>12
  <2>28. Once(call.got, SlotSet(call.got))'
    BY <2>24
  <2>29. HeldInv'
    BY <1>4, <2>6, <2>23, <2>24, <2>25, <2>26, <2>27, <2>28 DEF HeldInv
  <2> QED
    BY <1>1, <2>3, <2>29, OverStays
<1>9. CASE \E m, e : /\ m \in Nat /\ e \in Nat /\ call.until <= MonthStart(m)
                     /\ call' = [call EXCEPT !.missing = call.missing \ (m..(e - 1))]
                     /\ UNCHANGED <<chunk, partial>> /\ InCall /\ call.pc = "fetch" /\ call.delta = {}
                     /\ unfound \subseteq unfound'
  <2>1. PICK m, e : /\ m \in Nat /\ e \in Nat /\ call.until <= MonthStart(m)
                    /\ call' = [call EXCEPT !.missing = call.missing \ (m..(e - 1))]
                    /\ chunk' = chunk /\ InCall /\ call.pc = "fetch" /\ call.delta = {}
                    /\ unfound \subseteq unfound'
    BY <1>9
  <2>2. PICK left : left = call.missing \ (m..(e - 1))
    OBVIOUS
  <2>3. PICK c : c = call.got
    OBVIOUS
  <2>4. /\ call'.pc = "fetch" /\ call'.first = call.first /\ call'.last = call.last
        /\ call'.until = call.until /\ call'.got = c /\ call'.delta = {}
        /\ call'.missing = left /\ D \subseteq F
    BY <1>4, <2>1, <2>2, <2>3 DEF InCall
  <2>5. PICK u \in Nat : u = call.until
    BY <2>1 DEF InCall
  <2>6. ASSUME NEW k \in E, MonthOf(k) \in m..(e - 1) PROVE ~(StartOf(k) < u)
    <3>1. PICK x : x = MonthOf(k)
      OBVIOUS
    <3>2. x \in Nat /\ m <= x /\ StartOf(k) \in Nat /\ MonthStart(x) <= StartOf(k)
      BY <1>2, <1>3, <2>6, <3>1, SlotIs
    <3>3. MonthStart(m) \in Int /\ MonthStart(x) \in Int /\ MonthStart(m) <= MonthStart(x)
      BY <2>1, <3>2, MonthStartsIn
    <3> QED
      BY <2>1, <2>5, <3>2, <3>3
  <2>7. \A k : k \in Gathered <=> /\ k \in E /\ MonthOf(k) \in call.first..call.last
                                  /\ MonthOf(k) \notin call.missing /\ StartOf(k) < u
    BY <1>3, <2>1, <2>5 DEF Gathered
  <2>8. \A k : k \in Gathered' <=> /\ k \in E /\ MonthOf(k) \in call.first..call.last
                                   /\ MonthOf(k) \notin left /\ StartOf(k) < u
    BY <1>3, <2>4, <2>5 DEF Gathered
  <2>9. \A k : k \in Gathered' <=> k \in Gathered
    BY <2>2, <2>6, <2>7, <2>8
  <2>10. /\ \A k \in call.missing : k \in call.first..call.last
         /\ c \in Seq(Candle) /\ Once(c, SlotSet(c))
         /\ \A k \in SlotSet(c) : k \in Gathered
         /\ \A k \in Gathered : Sure(k, D) => k \in SlotSet(c)
    BY <1>4, <2>1, <2>3 DEF HeldInv
  <2>11. \A k \in Gathered' : Sure(k, F)' => k \in SlotSet(c)
    BY <1>7, <2>4, <2>9, <2>10
  <2>12. Once(call.got, SlotSet(call.got))'
    BY <2>4, <2>10
  <2>13. HeldInv'
    BY <1>4, <2>2, <2>4, <2>9, <2>10, <2>11, <2>12 DEF HeldInv
  <2> QED
    BY <1>1, <2>1, <2>13, OverStays
<1> QED
  BY <1>8, <1>9, DeltaGives, RunGives

\* A call starts from its chunks, read one after the other.
LEMMA HeldClassify ==
  ASSUME SourceInv, ChunksOver, UNCHANGED world, Classify
  PROVE  HeldInv' /\ ChunksOver'
<1>1. /\ source' = source /\ listing' = listing /\ now' = now /\ now \in Nat
      /\ \A m \in DOMAIN chunk : m \in Nat
      /\ CacheShape /\ Disk /\ ChunksFit /\ InCall /\ chunk' = chunk
  BY ChunkMonths DEF Classify, SourceInv, CacheShape, world, Idle
<1>2. PICK u \in Nat : u = DataAvailableUntil
  BY <1>1, UntilIsTime
<1>3. PICK n : n = Months /\ n \in Nat \ {0}
  BY Sizes
<1>4. PICK months : months = call.first..call.last
  OBVIOUS
<1>5. PICK seqs : seqs = [i \in 1..n |-> IF i - 1 \in months \cap DOMAIN chunk THEN chunk[i - 1] ELSE << >>]
  OBVIOUS
<1>6. PICK d, r : d = (months \ DOMAIN chunk) \cap DOMAIN partial /\ r = (months \ DOMAIN chunk) \ DOMAIN partial
  OBVIOUS
<1>7. PICK got : got = FlattenSeq(seqs)
  OBVIOUS
<1>8. call' = [call EXCEPT !.pc = "fetch", !.until = u, !.got = got, !.delta = d, !.missing = r]
      /\ unfound' = unfound
  BY <1>2, <1>3, <1>4, <1>5, <1>6, <1>7 DEF Classify
<1>9. /\ call'.pc = "fetch" /\ call'.until = u /\ call'.got = got
      /\ call'.delta = d /\ call'.missing = r /\ call'.first = call.first /\ call'.last = call.last
  BY <1>1, <1>8 DEF InCall
<1>10. PICK S : S = [i \in 1..n |-> IF i - 1 \in months \cap DOMAIN chunk THEN SlotSet(chunk[i - 1]) ELSE {}]
  OBVIOUS
<1>11. ASSUME NEW i \in 1..n, NEW k \in S[i]
       PROVE  k \in Existing(Slots) /\ k \in Slots /\ k \in Nat /\ MonthOf(k) = i - 1
  <2>1. i - 1 \in months \cap DOMAIN chunk /\ k \in SlotSet(chunk[i - 1])
    BY <1>10
  <2>2. PICK m, X : m = i - 1 /\ X = SlotSet(chunk[m]) /\ m \in Int
    OBVIOUS
  <2>3. m \in DOMAIN chunk /\ k \in X
    BY <2>1, <2>2
  <2>4. k \in Span(MonthStart(m), MonthStart(m + 1))
    BY <1>1, <2>2, <2>3 DEF ChunksFit, Fits
  <2>5. k \in Existing(Slots) /\ MonthStart(m) <= StartOf(k) /\ StartOf(k) < MonthStart(m + 1)
    BY <2>4 DEF Span
  <2>6. k \in Slots /\ k \in Nat
    BY <2>5, CertainIs
  <2> QED
    BY <2>2, <2>5, <2>6, InMonth
<1>12. seqs \in [1..n -> Seq(Candle)] /\ \A i \in 1..n : InOrder(seqs[i], S[i])
  <2>1. ASSUME NEW i \in 1..n PROVE seqs[i] \in Seq(Candle) /\ InOrder(seqs[i], S[i])
    <3>1. CASE i - 1 \in months \cap DOMAIN chunk
      <4>1. PICK c : c = chunk[i - 1]
        OBVIOUS
      <4>2. c \in Seq(Candle) /\ Ordered(c) /\ seqs[i] = c /\ S[i] = SlotSet(c)
        BY <1>1, <1>5, <1>10, <3>1, <4>1 DEF Disk, ChunksFit
      <4> QED
        BY <4>2, SlotSetIs
    <3>2. CASE i - 1 \notin months \cap DOMAIN chunk
      <4>1. seqs[i] = << >> /\ S[i] = {} /\ DOMAIN << >> = {} /\ << >> \in Seq(Candle)
        BY <1>5, <1>10, <3>2
      <4> QED
        BY <4>1 DEF InOrder
    <3> QED
      BY <3>1, <3>2
  <2>2. seqs = [i \in 1..n |-> seqs[i]]
    BY <1>5
  <2> QED
    BY <2>1, <2>2
<1>13. S \in [1..n -> SUBSET Slots]
  <2>1. \A i \in 1..n : S[i] \in SUBSET Slots
    BY <1>11
  <2>2. S = [i \in 1..n |-> S[i]]
    BY <1>10
  <2> QED
    BY <2>1, <2>2
<1>14. \A i, j \in 1..n : i < j => \A x \in S[i], y \in S[j] : x < y
  <2> SUFFICES ASSUME NEW i \in 1..n, NEW j \in 1..n, i < j, NEW x \in S[i], NEW y \in S[j]
               PROVE  x < y
    OBVIOUS
  <2>1. x \in Nat /\ y \in Nat /\ MonthOf(x) = i - 1 /\ MonthOf(y) = j - 1
    BY <1>11
  <2>2. PICK a, b : a = i - 1 /\ b = j - 1 /\ a \in Int /\ b \in Int /\ a + 1 \in Int /\ a + 1 <= b
    BY <1>3
  <2>3. StartOf(x) < MonthStart(a + 1) /\ MonthStart(b) <= StartOf(y)
    BY <2>1, <2>2, InMonth
  <2>4. MonthStart(a + 1) \in Int /\ MonthStart(b) \in Int /\ MonthStart(a + 1) <= MonthStart(b)
    BY <2>2, MonthStartsIn
  <2> QED
    BY <2>1, <2>3, <2>4 DEF StartOf
<1>15. PICK U : U = UNION {S[i] : i \in 1..n}
  OBVIOUS
<1>16. got \in Seq(Candle) /\ InOrder(got, U)
  BY <1>3, <1>7, <1>12, <1>13, <1>14, <1>15, FlattenIs
<1>17. U \in SUBSET Slots
  BY <1>11, <1>15
<1>18. SlotSet(got) = U /\ Once(got, U)
  BY <1>16, <1>17, InOrderOnce, SlotSetIs
<1>19. ASSUME NEW k \in Existing(Slots), MonthOf(k) \in DOMAIN chunk
       PROVE  /\ StartOf(k) < u
              /\ MonthOf(k) \in months /\ Sure(k, unfound) => k \in U
  <2>1. PICK x, c : x = MonthOf(k) /\ c = chunk[x]
    OBVIOUS
  <2>2. k \in Slots
    BY DEF Existing
  <2>3. /\ k \in Nat /\ StartOf(k) \in Nat /\ x \in MonthNumbers
    BY <2>1, <2>2, SlotIs
  <2>4. x \in Nat /\ x < n /\ x \in Int /\ x + 1 \in Int
    BY <1>3, <2>3 DEF MonthNumbers
  <2>5. MonthStart(x) <= StartOf(k) /\ StartOf(k) < MonthStart(x + 1)
    BY <2>1, <2>3, <2>4, InMonth
  <2>6. MonthStart(x + 1) <= u /\ MonthStart(x + 1) \in Int
    BY <1>2, <1>19, <2>1, <2>4, MonthStartIs DEF ChunksOver
  <2>7. StartOf(k) < u
    BY <2>3, <2>5, <2>6
  <2>8. ASSUME x \in months, Sure(k, unfound) PROVE k \in U
    <3>1. PICK i \in 1..n : i - 1 = x
      <4>1. x + 1 \in 1..n /\ (x + 1) - 1 = x
        BY <1>3, <2>4
      <4> QED
        BY <4>1
    <3>2. S[i] = SlotSet(c)
      BY <1>10, <1>19, <2>1, <2>8, <3>1
    <3>3. Fits(SlotSet(c), MonthStart(x), MonthStart(x + 1), unfound)
      BY <1>1, <1>19, <2>1 DEF ChunksFit
    <3>4. k \in SlotSet(c)
      BY <2>5, <2>8, <3>3 DEF Fits, Sure
    <3> QED
      BY <1>15, <3>2, <3>4
  <2> QED
    BY <2>1, <2>7, <2>8
<1>20. \A k \in U : k \in Existing(Slots) /\ MonthOf(k) \in months /\ MonthOf(k) \in DOMAIN chunk
  <2> SUFFICES ASSUME NEW k \in U
               PROVE  k \in Existing(Slots) /\ MonthOf(k) \in months /\ MonthOf(k) \in DOMAIN chunk
    OBVIOUS
  <2>1. PICK i \in 1..n : k \in S[i]
    BY <1>15
  <2>2. i - 1 \in months \cap DOMAIN chunk
    BY <1>10, <2>1
  <2> QED
    BY <1>11, <2>1, <2>2
<1>21. \A k : k \in Gathered' <=> /\ k \in Existing(Slots) /\ MonthOf(k) \in months
                                  /\ MonthOf(k) \notin d /\ MonthOf(k) \notin r /\ StartOf(k) < u
  <2>1. Existing(Slots)' = Existing(Slots)
    BY <1>1, WorldStays
  <2> QED
    BY <1>4, <1>9, <2>1 DEF Gathered
<1>22. \A k \in U : k \in Gathered'
  BY <1>6, <1>19, <1>20, <1>21
<1>23. \A k \in Gathered' : Sure(k, unfound)' => k \in U
  <2> SUFFICES ASSUME NEW k \in Gathered', Sure(k, unfound)' PROVE k \in U
    OBVIOUS
  <2>1. PICK D : D = unfound
    OBVIOUS
  <2>2. Sure(k, D)'
    BY <1>8, <2>1
  <2>3. Sure(k, D)
    BY <1>1, <2>2, SureStays
  <2> QED
    BY <1>6, <1>19, <1>21, <2>1, <2>3
<1>24. Once(call.got, SlotSet(call.got))'
  BY <1>9, <1>18
<1>25. HeldInv'
  BY <1>4, <1>6, <1>9, <1>16, <1>18, <1>22, <1>23, <1>24 DEF HeldInv
<1>26. ChunksOver'
  BY <1>1, OverStays
<1> QED
  BY <1>25, <1>26

ReturnInv == SourceInv /\ HeldInv /\ ChunksOver

\* Every step preserves the three.
LEMMA NextReturn ==
  ASSUME ReturnInv, NextCaches \/ UNCHANGED worldVars
  PROVE  ReturnInv'
<1>1. /\ SourceInv' /\ SourceInv /\ HeldInv /\ ChunksOver
  BY NextSource DEF ReturnInv
<1>2. /\ now \in Nat /\ now' \in Nat /\ now <= now' /\ source' = source /\ listing' = listing
      /\ UNCHANGED cacheVars \/ (IsCandles /\ CacheStep /\ UNCHANGED world)
      /\ \A m \in DOMAIN chunk : m \in Nat
  BY <1>1, WorldMoves, ChunkMonths DEF SourceInv, CacheShape
<1>3. CASE UNCHANGED cacheVars
  <2>1. call' = call /\ chunk' = chunk /\ unfound' = unfound
    BY <1>3 DEF cacheVars
  <2>2. HeldInv'
    <3>1. CASE call.pc \in {"fetch", "save", "promote"}
      BY <1>1, <1>2, <2>1, <3>1, GatheredStays
    <3>2. CASE call.pc \notin {"fetch", "save", "promote"}
      BY <2>1, <3>2 DEF HeldInv
    <3> QED
      BY <3>1, <3>2
  <2>3. ChunksOver'
    BY <1>1, <1>2, <2>1, OverStays
  <2> QED
    BY <1>1, <2>2, <2>3 DEF ReturnInv
<1>4. CASE IsCandles /\ CacheStep /\ UNCHANGED world
  <2>1. HeldInv' /\ ChunksOver'
    BY <1>1, <1>4, HeldCalls, HeldSaves, HeldFetches, HeldClassify DEF CacheStep
  <2> QED
    BY <1>1, <2>1 DEF ReturnInv
<1> QED
  BY <1>2, <1>3, <1>4

\* An empty cache satisfies them.
LEMMA InitReturn == InitCaches => ReturnInv
<1> SUFFICES ASSUME InitCaches PROVE ReturnInv
  OBVIOUS
<1>1. chunk = << >> /\ call = Idle
  BY DEF InitCaches, InitCache
<1>2. DOMAIN chunk = {} /\ call.pc = "idle"
  BY <1>1 DEF Idle
<1> QED
  BY <1>2, InitSource DEF ReturnInv, HeldInv, ChunksOver

\* When nothing is left to fetch, what is gathered is of the range.
LEMMA HeldIsReturned ==
  ASSUME ReturnInv
  PROVE  ReturnsSource
<1>1. PICK asked : asked = {k \in Slots : MonthOf(k) \in call.first..call.last /\ StartOf(k) < call.until}
  OBVIOUS
<1> SUFFICES ASSUME Returning
             PROVE  /\ IsInjective(SlotsIn(call.got))
                    /\ Assured(asked) \subseteq Range(SlotsIn(call.got))
                    /\ Range(SlotsIn(call.got)) \subseteq Existing(asked)
  BY <1>1 DEF ReturnsSource
<1>2. call.pc = "fetch" /\ call.delta = {} /\ call.missing = {}
  BY DEF Returning
<1>3. asked \in SUBSET Slots
  BY <1>1
<1>4. \A k : k \in Gathered <=> k \in Existing(asked)
  BY <1>1, <1>2 DEF Gathered, Existing
<1>5. PICK c, s : c = call.got /\ s = SlotsIn(c)
  OBVIOUS
<1>6. /\ Once(c, SlotSet(c)) /\ \A k \in SlotSet(c) : k \in Gathered
      /\ \A k \in Gathered : Sure(k, unfound) => k \in SlotSet(c)
  BY <1>2, <1>5 DEF ReturnInv, HeldInv
<1>7. DOMAIN s = DOMAIN c /\ \A i \in DOMAIN c : s[i] = c[i].slot
  BY <1>5 DEF SlotsIn
<1>8. IsInjective(s)
  BY <1>6, <1>7 DEF Once, IsInjective
<1>9. \A k : k \in Range(s) <=> k \in SlotSet(c)
  BY <1>7 DEF SlotSet, Range
<1>10. \A k \in Assured(asked) : k \in Existing(asked) /\ Sure(k, unfound)
  BY <1>3, CertainIs DEF Assured, Sure, Certain
<1>11. Assured(asked) \subseteq Range(s) /\ Range(s) \subseteq Existing(asked)
  BY <1>4, <1>6, <1>9, <1>10
<1> QED
  BY <1>5, <1>8, <1>11

(***************************************************************************)
(* And so every call returns candles of its range only, each once, and     *)
(* every one the source has but for the same three gaps.                   *)
(***************************************************************************)
THEOREM CallsReturnTheSource == SpecCaches => []ReturnsSource
<1>1. InitCaches => ReturnInv
  BY InitReturn
<1>2. ReturnInv /\ [NextCaches]_<<world, cacheVars, dumpVars>> => ReturnInv'
  BY NextReturn DEF worldVars
<1>3. ReturnInv => ReturnsSource
  BY HeldIsReturned
<1> QED
  BY <1>1, <1>2, <1>3, PTL DEF SpecCaches

-----------------------------------------------------------------------------
(* The series of a sweep. *)

(***************************************************************************)
(* A cache holds nothing wrong: what a job of the grid would find under    *)
(* one of its keys is what it would compute.                               *)
(***************************************************************************)
Sound(list, known) ==
  \A i \in DOMAIN list : \A u \in Uses(list[i]) :
    CacheKey(u[2]) # Nothing /\ <<u[1], CacheKey(u[2])>> \in DOMAIN known =>
      known[<<u[1], CacheKey(u[2])>>] = SeriesOf(u[1], u[2])

\* The type of a sweep, as far as the proof needs it.
SweepShape ==
  /\ jobs \in JobLists
  /\ warmed \in Nat /\ warmed <= Len(jobs)
  /\ next \in Nat \ {0}
  /\ DOMAIN results = DOMAIN jobs
  /\ DOMAIN own = 1..workers /\ DOMAIN busy = 1..workers
\* No cache holds anything wrong, the parent's or a worker's ...
CachesSound == Sound(jobs, cache) /\ \A w \in 1..workers : Sound(jobs, own[w])
\* ... a worker works on a job of the grid ...
BusyOnJobs == \A w \in 1..workers : busy[w] # Nothing => busy[w] \in DOMAIN jobs
\* ... and what is on its way is that job's own result.
SentRight == \A m \in sent : m.index \in DOMAIN jobs /\ m.summary = Direct(jobs[m.index])

(***************************************************************************)
(* The inductive invariant.  The results are right because what is on its  *)
(* way to the parent is right, and that because no cache, the parent's or  *)
(* a worker's, ever holds under a key what another indicator computes.     *)
(***************************************************************************)
SweepInv == SweepShape /\ CachesSound /\ BusyOnJobs /\ SentRight /\ SweepIsSequential

-----------------------------------------------------------------------------
(***************************************************************************)
(* The key says all that compute depends on: two indicators that have the  *)
(* same one compute the same series of a symbol.                           *)
(***************************************************************************)
LEMMA KeyDetermines ==
  ASSUME NEW symbol, NEW a, NEW b, a.custom \in BOOLEAN, b.custom \in BOOLEAN,
         CacheKey(a) # Nothing, CacheKey(b) = CacheKey(a)
  PROVE  SeriesOf(symbol, a) = SeriesOf(symbol, b)
<1>1. a.custom = FALSE /\ b.custom = FALSE
  BY DEF CacheKey
<1>2. a.class = b.class /\ a.window = b.window
  BY <1>1 DEF CacheKey
<1> QED
  BY <1>1, <1>2 DEF SeriesOf

(***************************************************************************)
(* What a job of the grid adds to a sound cache leaves it sound.           *)
(***************************************************************************)
LEMMA AddedSound ==
  ASSUME jobs \in JobLists, NEW j \in DOMAIN jobs, NEW known, Sound(jobs, known)
  PROVE  Sound(jobs, Added(jobs[j], known))
<1> DEFINE added == Added(jobs[j], known)
           Key(u) == <<u[1], CacheKey(u[2])>>
<1> SUFFICES ASSUME NEW i \in DOMAIN jobs, NEW u \in Uses(jobs[i]),
                    CacheKey(u[2]) # Nothing, Key(u) \in DOMAIN added
             PROVE  added[Key(u)] = SeriesOf(u[1], u[2])
  BY DEF Sound
<1>1. DOMAIN added = DOMAIN known \cup Missing(jobs[j], known)
  BY DEF Added
<1>2. CASE Key(u) \in DOMAIN known
  <2>1. added[Key(u)] = known[Key(u)]
    BY <1>1, <1>2 DEF Added
  <2>2. known[Key(u)] = SeriesOf(u[1], u[2])
    BY <1>2 DEF Sound
  <2> QED
    BY <2>1, <2>2
<1>3. CASE Key(u) \notin DOMAIN known
  <2> DEFINE v == CHOOSE x \in Uses(jobs[j]) : Key(x) = Key(u)
  <2>1. \E x \in Uses(jobs[j]) : Key(x) = Key(u)
    BY <1>1, <1>3 DEF Missing
  <2>2. v \in Uses(jobs[j]) /\ Key(v) = Key(u)
    BY <2>1
  <2>3. added[Key(u)] = SeriesOf(v[1], v[2])
    BY <1>1, <1>3 DEF Added
  <2>4. v[1] = u[1] /\ CacheKey(v[2]) = CacheKey(u[2])
    <3> HIDE DEF v
    <3> QED BY <2>2
  <2>5. u[2].custom \in BOOLEAN /\ v[2].custom \in BOOLEAN
    <3>1. u[2] \in jobs[i].inds /\ v[2] \in jobs[j].inds
      <4> HIDE DEF v
      <4> QED BY <2>2 DEF Uses
    <3> QED
      BY <3>1, JobAssumption
  <2>6. SeriesOf(u[1], u[2]) = SeriesOf(u[1], v[2])
    <3> HIDE DEF v
    <3> QED BY <2>4, <2>5, KeyDetermines
  <2> QED
    BY <2>3, <2>4, <2>6
<1> QED
  BY <1>2, <1>3

(***************************************************************************)
(* From a sound cache a job's summary is that of the job run by itself.    *)
(***************************************************************************)
LEMMA SummaryIsDirect ==
  ASSUME jobs \in JobLists, NEW j \in DOMAIN jobs, NEW known, Sound(jobs, known)
  PROVE  Summary(jobs[j], known) = Direct(jobs[j])
<1> DEFINE added == Added(jobs[j], known)
<1>1. ASSUME NEW u \in Uses(jobs[j]), CacheKey(u[2]) # Nothing
      PROVE  added[<<u[1], CacheKey(u[2])>>] = SeriesOf(u[1], u[2])
  <2>1. <<u[1], CacheKey(u[2])>> \in DOMAIN added
    BY <1>1 DEF Added, Missing
  <2>2. Sound(jobs, added)
    BY AddedSound
  <2> HIDE DEF added
  <2> QED
    BY <1>1, <2>1, <2>2 DEF Sound
<1> HIDE DEF added
<1>2. Summary(jobs[j], known)
        = [u \in Uses(jobs[j]) |->
             IF ~precompute \/ CacheKey(u[2]) = Nothing THEN SeriesOf(u[1], u[2])
             ELSE added[<<u[1], CacheKey(u[2])>>]]
  BY DEF Summary, added
<1> QED
  BY <1>1, <1>2 DEF Direct

-----------------------------------------------------------------------------
LEMMA InitSweep == Init => SweepInv
<1> SUFFICES ASSUME Init PROVE SweepInv
  OBVIOUS
<1> USE DEF Init
<1>1. SweepShape
  BY JobAssumption DEF SweepShape
<1>2. CachesSound
  BY DEF CachesSound, Sound, Empty
<1>3. BusyOnJobs /\ SentRight /\ SweepIsSequential
  BY DEF BusyOnJobs, SentRight, SweepIsSequential
<1> QED
  BY <1>1, <1>2, <1>3 DEF SweepInv

LEMMA NextSweep == SweepInv /\ [Next]_vars => SweepInv'
<1> SUFFICES ASSUME SweepInv, [Next]_vars PROVE SweepInv'
  OBVIOUS
<1> USE DEF SweepInv, SweepShape
<1> USE DEF grid, pool
<1>a. Len(jobs) \in Nat /\ DOMAIN jobs = 1..Len(jobs)
  BY JobAssumption
<1>1. CASE Start
  <2>1. UNCHANGED <<grid, warmed, cache, pool, sent, results, deaths>>
    BY <1>1 DEF Start
  <2>2. phase' = "done" => phase = "done" \/ DOMAIN jobs = {}
    BY <1>1, <1>a DEF Start
  <2>3. SweepShape' /\ CachesSound' /\ BusyOnJobs' /\ SentRight'
    BY <2>1 DEF CachesSound, BusyOnJobs, SentRight
  <2>4. SweepIsSequential'
    BY <2>1, <2>2 DEF SweepIsSequential
  <2> QED
    BY <2>3, <2>4
<1>2. CASE WarmJob
  <2>1. /\ UNCHANGED <<grid, phase, pool, sent, results, deaths>>
        /\ warmed < Len(jobs)
        /\ cache' = Added(jobs[warmed + 1], cache)
        /\ warmed' = warmed + 1
    BY <1>2 DEF WarmJob
  <2>2. SweepShape' /\ BusyOnJobs' /\ SentRight' /\ SweepIsSequential'
    BY <2>1, <1>a DEF BusyOnJobs, SentRight, SweepIsSequential
  <2>3. Sound(jobs, Added(jobs[warmed + 1], cache))
    BY <2>1, <1>a, AddedSound DEF CachesSound
  <2>4. CachesSound'
    BY <2>1, <2>3 DEF CachesSound
  <2> QED
    BY <2>2, <2>4
<1>3. CASE Fork
  <2>1. /\ UNCHANGED <<grid, warmed, cache, busy, tasks, next, sent, results, deaths>>
        /\ phase' = "running"
        /\ own' = [w \in 1..workers |-> cache]
    BY <1>3 DEF Fork
  <2>2. CachesSound'
    BY <2>1 DEF CachesSound
  <2>3. SweepShape' /\ BusyOnJobs' /\ SentRight' /\ SweepIsSequential'
    BY <2>1 DEF BusyOnJobs, SentRight, SweepIsSequential
  <2> QED
    BY <2>2, <2>3
<1>4. CASE Finish
  BY <1>4 DEF Finish, CachesSound, BusyOnJobs, SentRight, SweepIsSequential
<1>5. ASSUME NEW w \in 1..workers, Take(w)
      PROVE  SweepInv'
  <2>1. /\ UNCHANGED <<grid, phase, warmed, cache, sent, results, deaths>>
        /\ next <= Len(jobs)
        /\ busy' = [busy EXCEPT ![w] = next]
        /\ next' = next + 1
        /\ own' = own \/ own' = [own EXCEPT ![w] = cache]
    BY <1>5 DEF Take
  <2>2. CachesSound'
    BY <2>1 DEF CachesSound
  <2>3. BusyOnJobs'
    BY <2>1, <1>a DEF BusyOnJobs
  <2>4. SweepShape' /\ SentRight' /\ SweepIsSequential'
    BY <2>1 DEF SentRight, SweepIsSequential
  <2> QED
    BY <2>2, <2>3, <2>4
<1>6. ASSUME NEW w \in 1..workers, RunJob(w)
      PROVE  SweepInv'
  <2> DEFINE i == busy[w]
             m == [index |-> i, failed |-> jobs[i].fails, summary |-> Summary(jobs[i], own[w])]
  <2>1. /\ UNCHANGED <<grid, phase, warmed, cache, tasks, next, results, deaths>>
        /\ i # Nothing
        /\ sent' = sent \cup {m}
        /\ own' = own \/ own' = [own EXCEPT ![w] = Added(jobs[i], own[w])]
        /\ busy' = [busy EXCEPT ![w] = Nothing]
    BY <1>6 DEF RunJob
  <2>2. i \in DOMAIN jobs /\ Sound(jobs, own[w])
    BY <2>1 DEF BusyOnJobs, CachesSound
  <2>3. Sound(jobs, Added(jobs[i], own[w]))
    BY <2>2, AddedSound
  <2>4. CachesSound'
    BY <2>1, <2>3 DEF CachesSound
  <2>5. m.index = i /\ m.summary = Direct(jobs[i])
    BY <2>2, SummaryIsDirect
  <2>6. SentRight'
    <3> HIDE DEF m
    <3> QED BY <2>1, <2>2, <2>5 DEF SentRight
  <2>7. SweepShape' /\ BusyOnJobs' /\ SweepIsSequential'
    BY <2>1 DEF BusyOnJobs, SweepIsSequential
  <2> QED
    BY <2>4, <2>6, <2>7
<1>7. ASSUME NEW w \in 1..workers, Killed(w)
      PROVE  SweepInv'
  <2>1. /\ UNCHANGED <<grid, phase, warmed, cache, next, sent, results>>
        /\ busy' = [busy EXCEPT ![w] = Nothing]
        /\ own' = [own EXCEPT ![w] = cache]
    BY <1>7 DEF Killed
  <2>2. CachesSound'
    BY <2>1 DEF CachesSound
  <2>3. SweepShape' /\ BusyOnJobs' /\ SentRight' /\ SweepIsSequential'
    BY <2>1 DEF BusyOnJobs, SentRight, SweepIsSequential
  <2> QED
    BY <2>2, <2>3
<1>8. ASSUME NEW m \in sent, Collect(m)
      PROVE  SweepInv'
  <2>1. /\ UNCHANGED <<grid, warmed, cache, pool, deaths>>
        /\ sent' = sent \ {m}
        /\ phase = "running" /\ phase' \in {"running", "raised"}
        /\ results' = results \/ results' = [results EXCEPT ![m.index] = m.summary]
    BY <1>8 DEF Collect
  <2>2. m.index \in DOMAIN jobs /\ m.summary = Direct(jobs[m.index])
    BY DEF SentRight
  <2>3. SweepShape' /\ CachesSound' /\ BusyOnJobs' /\ SentRight'
    BY <2>1 DEF CachesSound, BusyOnJobs, SentRight
  <2>4. SweepIsSequential'
    BY <2>1, <2>2 DEF SweepIsSequential
  <2> QED
    BY <2>3, <2>4
<1>9. CASE UNCHANGED vars
  BY <1>9 DEF vars, CachesSound, BusyOnJobs, SentRight, SweepIsSequential
<1> QED
  BY <1>1, <1>2, <1>3, <1>4, <1>5, <1>6, <1>7, <1>8, <1>9 DEF Next

(***************************************************************************)
(* The invariant of the sweep holds in every run of it.                    *)
(***************************************************************************)
THEOREM SweepInvariant == Spec => []SweepInv
  BY InitSweep, NextSweep, PTL DEF Spec

(***************************************************************************)
(* Every result of a sweep is that of its job run by itself, whatever the  *)
(* grid, the workers and the order in which they answer; a sweep that is   *)
(* done has all of them.                                                   *)
(***************************************************************************)
THEOREM ResultsAreSequential == Spec => []SweepIsSequential
<1>1. SweepInv => SweepIsSequential
  BY DEF SweepInv
<1> QED
  BY <1>1, SweepInvariant, PTL

=============================================================================

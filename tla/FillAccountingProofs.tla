------------------------ MODULE FillAccountingProofs ------------------------
(***************************************************************************)
(* Proofs about FillAccounting, for any symbols, prices, quantities and    *)
(* ratios: what the trades of a symbol report is the cash they moved, and  *)
(* the open profit is that of the position at its last price.  Both are    *)
(* proved symbol by symbol, and then that the account adds up: sums over   *)
(* the symbols, with the facts about sums it takes.                        *)
(***************************************************************************)
EXTENDS FillAccounting, FiniteSetTheorems, WellFoundedInduction, TLAPS

(***************************************************************************)
(* A product divided by one of its factors is the other: the share of the  *)
(* profit that a partial close realises is exact.                          *)
(***************************************************************************)
LEMMA QuotientExact ==
  ASSUME NEW d \in Int \ {0}, NEW x \in Int
  PROVE  Quotient(d * x, d) = x
<1>1. CASE d > 0
  <2>1. (d * x) \div d = x
    BY <1>1, SMTT(30)
  <2> QED
    BY <1>1, <2>1 DEF Quotient
<1>2. CASE d < 0
  <2> DEFINE e == -d
  <2>1. e \in Int /\ e > 0 /\ -(d * x) = e * x
    BY <1>2
  <2>2. (e * x) \div e = x
    <3> HIDE DEF e
    <3> QED BY <2>1, SMTT(30)
  <2> QED
    BY <1>2, <2>1, <2>2 DEF Quotient
<1> QED
  BY <1>1, <1>2

(***************************************************************************)
(* The average of a position that grew, times the position, is what was    *)
(* paid for both parts: the two are on one side, so no sign is lost.       *)
(***************************************************************************)
LEMMA AverageExact ==
  ASSUME NEW a \in Nat, NEW h \in Int, NEW q \in Int, NEW p \in Nat,
         SameSide(h, q),
         (Size(a * h) + Size(p * q)) % Size(h + q) = 0
  PROVE  LET n == (Size(a * h) + Size(p * q)) \div Size(h + q)
         IN  n \in Nat /\ n * (h + q) = a * h + p * q
<1> DEFINE c == Size(a * h) + Size(p * q)
           d == Size(h + q)
           n == c \div d
<1>1. a * h \in Int /\ p * q \in Int
  OBVIOUS
<1>2. c \in Nat /\ d \in Nat /\ d > 0
  BY <1>1 DEF Size, SameSide
<1>3. n \in Nat /\ n * d = c
  <2>1. c % d = 0
    OBVIOUS
  <2> HIDE DEF c, d
  <2>2. c = d * (c \div d) + (c % d) /\ c \div d \in Int /\ c \div d >= 0
    BY <1>2, SMTT(30)
  <2> QED
    BY <1>2, <2>1, <2>2
<1>4. CASE h > 0 /\ q > 0
  <2>1. d = h + q
    BY <1>4 DEF Size
  <2>2. a * h >= 0 /\ p * q >= 0
    BY <1>4
  <2>3. c = a * h + p * q
    BY <1>1, <2>2 DEF Size
  <2> QED
    BY <1>3, <2>1, <2>3
<1>5. CASE h < 0 /\ q < 0
  <2>1. d = -(h + q)
    BY <1>5 DEF Size
  <2>2. a * h <= 0 /\ p * q <= 0
    BY <1>5
  <2>3. c = -(a * h + p * q)
    BY <1>1, <2>2 DEF Size
  <2>4. n * (h + q) = -(n * d)
    <3> HIDE DEF n, d
    <3> QED BY <1>3, <2>1
  <2> QED
    BY <1>1, <1>3, <2>3, <2>4
<1> QED
  BY <1>3, <1>4, <1>5 DEF SameSide

-----------------------------------------------------------------------------
IInv == TypeOK /\ ReportedIsCashFlow /\ MarkedToPrice

\* The empty account satisfies the invariant.
LEMMA InitIInv == Init => IInv
BY AccountAssumption DEF Init, IInv, TypeOK, ReportedIsCashFlow, MarkedToPrice

(***************************************************************************)
(* What a fill settles preserves the invariant when the new average and    *)
(* the parts of the profit fit the cash the fill moves.                    *)
(***************************************************************************)
LEMMA SettleKeeps ==
  ASSUME IInv, NEW s \in Symbols, NEW q \in Int, NEW p \in Nat,
         NEW average \in Nat, NEW profit \in Int, NEW realised \in Int,
         Settle(s, q, p, average, profit, realised),
         average * (position[s] + q) = avg[s] * position[s] + q * p + realised,
         profit = (position[s] + q) * (p - average)
  PROVE  IInv'
<1> DEFINE fee == (p * Size(q) * FeePercent) \div 100
           held == position[s] + q
           newAvg == IF held = 0 THEN 0 ELSE average
<1>1. position[s] \in Int /\ avg[s] \in Nat /\ held \in Int /\ newAvg \in Nat
  BY DEF IInv, TypeOK
<1>2. fee \in Int
  BY AccountAssumption DEF Size
<1>3. /\ position' = [position EXCEPT ![s] = held]
      /\ avg' = [avg EXCEPT ![s] = newAvg]
      /\ unrealised' = [unrealised EXCEPT ![s] = profit]
      /\ margin' = margin + realised - fee
      /\ paid' = [paid EXCEPT ![s] = paid[s] + q * p]
      /\ wnl' = [wnl EXCEPT ![s] = wnl[s] + realised]
      /\ fees' = fees + fee
      /\ price' = [price EXCEPT ![s] = p]
      /\ fills' = fills + 1
  BY DEF Settle
<1>4. newAvg * held = average * held /\ held * (p - newAvg) = held * (p - average)
  BY <1>1
<1> HIDE DEF fee, newAvg
<1>5. TypeOK'
  BY <1>1, <1>2, <1>3 DEF IInv, TypeOK
<1>6. ReportedIsCashFlow'
  <2> SUFFICES ASSUME NEW t \in Symbols
               PROVE  wnl'[t] = avg'[t] * position'[t] - paid'[t]
    BY DEF ReportedIsCashFlow
  <2>1. CASE t = s
    <3>1. wnl'[s] = wnl[s] + realised /\ avg'[s] = newAvg /\ position'[s] = held
          /\ paid'[s] = paid[s] + q * p
      BY <1>3 DEF IInv, TypeOK
    <3>2. wnl[s] = avg[s] * position[s] - paid[s]
      BY DEF IInv, ReportedIsCashFlow
    <3>3. wnl[s] \in Int /\ paid[s] \in Int /\ q * p \in Int
          /\ avg[s] * position[s] \in Int
      BY <1>1 DEF IInv, TypeOK
    <3>4. newAvg * held = avg[s] * position[s] + q * p + realised
      BY <1>4
    <3> HIDE DEF held
    <3> QED
      BY <2>1, <3>1, <3>2, <3>3, <3>4
  <2>2. CASE t # s
    <3>1. wnl'[t] = wnl[t] /\ avg'[t] = avg[t] /\ position'[t] = position[t]
          /\ paid'[t] = paid[t]
      BY <1>3, <2>2 DEF IInv, TypeOK
    <3> QED
      BY <3>1 DEF IInv, ReportedIsCashFlow
  <2> QED
    BY <2>1, <2>2
<1>7. MarkedToPrice'
  <2> SUFFICES ASSUME NEW t \in Symbols
               PROVE  /\ unrealised'[t] = position'[t] * (price'[t] - avg'[t])
                      /\ position'[t] = 0 => avg'[t] = 0
    BY DEF MarkedToPrice
  <2>1. CASE t = s
    <3>1. unrealised'[s] = profit /\ avg'[s] = newAvg /\ position'[s] = held
          /\ price'[s] = p
      BY <1>3 DEF IInv, TypeOK
    <3>2. held = 0 => newAvg = 0
      BY DEF newAvg
    <3>3. profit = held * (p - newAvg)
      BY <1>4
    <3> HIDE DEF held
    <3> QED
      BY <2>1, <3>1, <3>2, <3>3
  <2>2. CASE t # s
    <3>1. unrealised'[t] = unrealised[t] /\ avg'[t] = avg[t]
          /\ position'[t] = position[t] /\ price'[t] = price[t]
      BY <1>3, <2>2 DEF IInv, TypeOK
    <3> QED
      BY <3>1 DEF IInv, MarkedToPrice
  <2> QED
    BY <2>1, <2>2
<1> QED
  BY <1>5, <1>6, <1>7 DEF IInv

\* Each of the four kinds of fill books what it should: by SettleKeeps.
LEMMA FillKeeps ==
  ASSUME IInv, NEW s \in Symbols, NEW p \in Prices, NEW q \in Quantities, Fill(s, q, p)
  PROVE  IInv'
<1> DEFINE h == position[s]
           a == avg[s]
<1>1. p \in Nat /\ q \in Int /\ q # 0 /\ h \in Int /\ a \in Nat
  BY AccountAssumption DEF IInv, TypeOK
<1>2. Profit(s, p) = h * (p - a) /\ Profit(s, p) \in Int
  BY <1>1 DEF Profit
<1>3. h = 0 => a = 0
  BY DEF IInv, MarkedToPrice
<1>4. CASE Opens(s, q, p)
  <2>1. h = 0 /\ a = 0 /\ Profit(s, p) = 0
    BY <1>1, <1>2, <1>3, <1>4 DEF Opens
  <2>2. Settle(s, q, p, p, 0, 0)
    BY <1>4, <2>1 DEF Opens
  <2>3. p * (h + q) = a * h + q * p + 0 /\ 0 = (h + q) * (p - p)
    BY <1>1, <2>1
  <2> QED
    BY <1>1, <2>2, <2>3, SettleKeeps
<1>5. CASE Adds(s, q, p)
  <2> DEFINE n == Average(s, q, p)
  <2>1. SameSide(h, q) /\ Settle(s, q, p, n, Profit(s, p), 0)
    BY <1>5 DEF Adds
  <2>2. (Size(a * h) + Size(p * q)) % Size(h + q) = 0
    BY <2>1 DEF Fill, OnGrid, Cost
  <2>3. n \in Nat /\ n * (h + q) = a * h + p * q
    BY <1>1, <2>1, <2>2, AverageExact DEF Average, Cost
  <2> HIDE DEF n
  <2>4. n * (h + q) = a * h + q * p + 0
    BY <1>1, <2>3
  <2>5. Profit(s, p) = (h + q) * (p - n)
    <3>1. (h + q) * (p - n) = (h + q) * p - n * (h + q)
      BY <1>1, <2>3
    <3>2. (h + q) * p = h * p + q * p /\ h * (p - a) = h * p - a * h
      BY <1>1
    <3>3. h * p \in Int /\ q * p \in Int /\ a * h \in Int
      BY <1>1
    <3> QED
      BY <1>2, <2>4, <3>1, <3>2, <3>3
  <2> QED
    BY <1>1, <1>2, <2>1, <2>3, <2>4, <2>5, SettleKeeps
<1>6. CASE Flips(s, q, p)
  <2>1. Settle(s, q, p, p, 0, h * (p - a))
    BY <1>2, <1>6 DEF Flips
  <2>2. p * (h + q) = a * h + q * p + h * (p - a)
    BY <1>1
  <2>3. 0 = (h + q) * (p - p) /\ h * (p - a) \in Int
    BY <1>1
  <2> QED
    BY <1>1, <2>1, <2>2, <2>3, SettleKeeps
<1>7. CASE Closes(s, q, p)
  <2> DEFINE x == (p - a) * (-q)
  <2>1. h # 0 /\ x \in Int
    BY <1>1, <1>7 DEF Closes, SameSide
  <2>2. Profit(s, p) * (-q) = h * x
    BY <1>1, <1>2
  <2>3. Quotient(Profit(s, p) * (-q), h) = x
    <3> HIDE DEF x, h
    <3> QED BY <1>1, <2>1, <2>2, QuotientExact
  <2>4. Settle(s, q, p, a, h * (p - a) - x, x)
    BY <1>2, <1>7, <2>3 DEF Closes
  <2>5. a * (h + q) = a * h + q * p + x
    <3>1. x = a * q - q * p /\ a * (h + q) = a * h + a * q
      <4>1. \A i, j, k, l \in Int : /\ (i - j) * (-k) = j * k - k * i
                                  /\ j * (l + k) = j * l + j * k
        BY SMTT(30)
      <4> HIDE DEF h, a
      <4> QED BY <1>1, <4>1
    <3>2. a * q \in Int /\ q * p \in Int /\ a * h \in Int
      BY <1>1
    <3> HIDE DEF x, a, h
    <3> QED BY <3>1, <3>2
  <2>6. h * (p - a) - x = (h + q) * (p - a) /\ h * (p - a) - x \in Int
    BY <1>1
  <2> HIDE DEF x
  <2> QED
    BY <1>1, <2>1, <2>4, <2>5, <2>6, SettleKeeps
<1> QED
  BY <1>4, <1>5, <1>6, <1>7 DEF Fill

\* Marking to a close moves the open profit with the price.
LEMMA MarkKeeps ==
  ASSUME IInv, NEW s \in Symbols, NEW p \in Prices, Mark(s, p)
  PROVE  IInv'
<1>1. p \in Int /\ Profit(s, p) \in Int
  BY AccountAssumption DEF Profit, IInv, TypeOK
<1>2. TypeOK'
  BY <1>1 DEF IInv, TypeOK, Mark
<1>3. ReportedIsCashFlow'
  BY DEF IInv, ReportedIsCashFlow, Mark
<1>4. MarkedToPrice'
  BY DEF IInv, TypeOK, MarkedToPrice, Mark, Profit
<1> QED
  BY <1>2, <1>3, <1>4 DEF IInv

(***************************************************************************)
(* The invariant holds in every state of every account.                    *)
(***************************************************************************)
THEOREM AccountInvariant == Spec => []IInv
<1>1. IInv /\ [Next]_vars => IInv'
  <2> SUFFICES ASSUME IInv, [Next]_vars PROVE IInv'
    OBVIOUS
  <2>1. CASE Next
    BY <2>1, FillKeeps, MarkKeeps DEF Next
  <2>2. CASE UNCHANGED vars
    BY <2>2 DEF vars, IInv, TypeOK, ReportedIsCashFlow, MarkedToPrice
  <2> QED
    BY <2>1, <2>2
<1> QED
  BY <1>1, InitIInv, PTL DEF Spec

(***************************************************************************)
(* Over any sequence of fills, what a symbol's trades report as won or     *)
(* lost is the cash they moved.                                            *)
(***************************************************************************)
THEOREM TradesReportCashFlow == Spec => []ReportedIsCashFlow
BY AccountInvariant, PTL DEF IInv

(***************************************************************************)
(* The open profit is that of the position at its last price, and a flat   *)
(* symbol carries nothing.                                                 *)
(***************************************************************************)
THEOREM ProfitsAreMarked == Spec => []MarkedToPrice
BY AccountInvariant, PTL DEF IInv

-----------------------------------------------------------------------------
(* Sums over the symbols. *)

(***************************************************************************)
(* Of the sets of symbols in a class, some has no smaller one by one       *)
(* symbol in it: what a proof by induction over the symbols needs.         *)
(***************************************************************************)
LEMMA SmallestSet ==
  ASSUME NEW C \in SUBSET SUBSET Symbols, C # {}
  PROVE  \E T \in C : \A x \in T : T \ {x} \notin C
<1> DEFINE Sizes == {Cardinality(T) : T \in C}
<1>1. \A T \in SUBSET Symbols : IsFiniteSet(T) /\ Cardinality(T) \in Nat
  BY AccountAssumption, FS_Subset, FS_CardinalityType
<1>2. Sizes \subseteq Nat /\ Sizes # {}
  BY <1>1
<1>3. PICK n \in Sizes : \A m \in Sizes : ~(<<m, n>> \in OpToRel(<, Nat))
  <2> HIDE DEF Sizes
  <2> QED BY <1>2, WFMin, NatLessThanWellFounded
<1>4. PICK T \in C : n = Cardinality(T)
  BY <1>3
<1>5. ASSUME NEW x \in T, T \ {x} \in C PROVE FALSE
  <2>1. Cardinality(T \ {x}) = Cardinality(T) - 1
    <3>1. IsFiniteSet(T)
      BY <1>1
    <3> QED
      BY <3>1, FS_RemoveElement
  <2>2. Cardinality(T \ {x}) \in Sizes /\ Cardinality(T \ {x}) \in Nat /\ n \in Nat
    BY <1>1, <1>2, <1>3, <1>5
  <2>3. Cardinality(T \ {x}) < n
    BY <1>4, <2>1, <2>2
  <2>4. <<Cardinality(T \ {x}), n>> \in OpToRel(<, Nat)
    BY <2>2, <2>3 DEF OpToRel
  <2> QED
    BY <1>3, <2>2, <2>4
<1> QED
  BY <1>5

(* The partial sums of f over the sets of symbols in S. *)
One(T) == CHOOSE x \in T : TRUE
Rest(T) == T \ {One(T)}
Part(T, S) == T \in SUBSET S
Sums(h, f, S) ==
  h = [T \in SUBSET S |-> IF T = {} THEN 0 ELSE f[One(T)] + h[Rest(T)]]

Step(h, f, T) == f[One(T)] + h[Rest(T)]

LEMMA OneOf == ASSUME NEW T, T # {} PROVE One(T) \in T
BY DEF One

LEMMA SumEmpty ==
  ASSUME NEW S, NEW f, NEW h, Sums(h, f, S)
  PROVE  h[{}] = 0
BY DEF Sums

LEMMA SumStep ==
  ASSUME NEW S, NEW f, NEW h, NEW T, Sums(h, f, S), Part(T, S), T # {}
  PROVE  One(T) \in T /\ Part(Rest(T), S) /\ h[T] = Step(h, f, T)
<1>1. h = [U \in SUBSET S |-> IF U = {} THEN 0 ELSE f[One(U)] + h[Rest(U)]]
  BY DEF Sums
<1>2. T \in SUBSET S
  BY DEF Part
<1>3. h[T] = f[One(T)] + h[Rest(T)]
  BY <1>1, <1>2
<1> QED
  BY <1>2, <1>3, OneOf DEF Part, Rest, Step

(* A sum does not depend on what else is summed. *)
LEMMA SumsAgree ==
  ASSUME NEW S, NEW R, Part(S, Symbols), Part(R, S), NEW f, NEW g, NEW h,
         Sums(g, f, S), Sums(h, f, R)
  PROVE  \A T \in SUBSET R : g[T] = h[T]
<1>0. S \subseteq Symbols /\ R \subseteq S
  BY DEF Part
<1> DEFINE C == {T \in SUBSET R : g[T] # h[T]}
<1> SUFFICES ASSUME C # {} PROVE FALSE
  OBVIOUS
<1>1. PICK T \in C : \A x \in T : T \ {x} \notin C
  <2>1. C \in SUBSET SUBSET Symbols
    BY <1>0
  <2> HIDE DEF C
  <2> QED
    BY <2>1, SmallestSet
<1>2. T \in SUBSET R /\ Part(T, R) /\ Part(T, S) /\ g[T] # h[T]
  BY <1>0 DEF Part
<1>3. CASE T = {}
  BY <1>2, <1>3, SumEmpty, SumStep
<1>4. CASE T # {}
  <2>1. One(T) \in T /\ g[T] = Step(g, f, T) /\ h[T] = Step(h, f, T)
    BY <1>2, <1>4, SumStep
  <2>2. Rest(T) \in SUBSET R /\ Rest(T) \notin C
    BY <1>1, <1>2, <2>1 DEF Rest
  <2>3. g[Rest(T)] = h[Rest(T)]
    BY <2>2
  <2> QED
    BY <1>2, <2>1, <2>3 DEF Step
<1> QED
  BY <1>3, <1>4

(* The recursive definition of a sum defines one. *)
LEMMA SumsExist ==
  ASSUME NEW f
  PROVE  \A S \in SUBSET Symbols : \E h : Sums(h, f, S)
<1> DEFINE C == {S \in SUBSET Symbols : ~\E h : Sums(h, f, S)}
<1> SUFFICES ASSUME C # {} PROVE FALSE
  OBVIOUS
<1>1. PICK S \in C : \A x \in S : S \ {x} \notin C
  <2>1. C \in SUBSET SUBSET Symbols
    OBVIOUS
  <2> HIDE DEF C
  <2> QED
    BY <2>1, SmallestSet
<1>2. S \in SUBSET Symbols /\ ~\E h : Sums(h, f, S)
  OBVIOUS
<1>3. ASSUME NEW x \in S PROVE \E h : Sums(h, f, S \ {x})
  <2>1. S \ {x} \in SUBSET Symbols /\ S \ {x} \notin C
    BY <1>1, <1>2
  <2> QED
    BY <2>1
<1> HIDE DEF C
<1> DEFINE K(T) == CHOOSE h : Sums(h, f, T)
<1>4. ASSUME NEW T \in SUBSET S, T # S PROVE Sums(K(T), f, T)
  <2>1. PICK x \in S : T \in SUBSET (S \ {x})
    BY <1>4
  <2>2. PICK h : Sums(h, f, S \ {x})
    BY <1>3
  <2> DEFINE g == [U \in SUBSET T |-> h[U]]
  <2>3. Sums(g, f, T)
    <3>1. ASSUME NEW U \in SUBSET T
          PROVE  g[U] = IF U = {} THEN 0 ELSE Step(g, f, U)
      <4>1. U \in SUBSET (S \ {x}) /\ Rest(U) \in SUBSET T /\ Part(U, S \ {x})
        BY <2>1 DEF Part, Rest
      <4>2. g[U] = h[U] /\ g[Rest(U)] = h[Rest(U)]
        BY <4>1
      <4> HIDE DEF g
      <4>3. Step(g, f, U) = Step(h, f, U)
        BY <4>2 DEF Step
      <4>4. CASE U = {}
        BY <2>2, <4>2, <4>4, SumEmpty
      <4>5. CASE U # {}
        BY <2>2, <4>1, <4>2, <4>3, <4>5, SumStep
      <4> QED
        BY <4>4, <4>5
    <3>2. g = [U \in SUBSET T |-> g[U]]
      OBVIOUS
    <3> HIDE DEF g
    <3>3. g = [U \in SUBSET T |-> IF U = {} THEN 0 ELSE f[One(U)] + g[Rest(U)]]
      BY <3>1, <3>2 DEF Step
    <3> QED
      BY <3>3 DEF Sums
  <2> QED
    BY <2>3
<1> HIDE DEF K
<1> DEFINE h == [T \in SUBSET S |-> IF T = {} THEN 0
                                    ELSE IF T = S THEN f[One(S)] + K(Rest(S))[Rest(S)]
                                    ELSE K(T)[T]]
<1>5. ASSUME NEW T \in SUBSET S
      PROVE  h[T] = IF T = {} THEN 0 ELSE Step(h, f, T)
  <2>1. CASE T = {}
    BY <2>1
  <2>2. CASE T # {}
    <3>1. One(T) \in T /\ Rest(T) \in SUBSET S /\ Rest(T) # S
      BY <2>2, OneOf DEF Rest
    <3> DEFINE U == Rest(T)
    <3>2. U \in SUBSET S /\ U # S /\ Sums(K(U), f, U)
      BY <1>4, <3>1
    <3>3. h[U] = K(U)[U]
      <4>1. CASE U = {}
        <5>1. K(U)[U] = 0
          <6>1. Part(U, U)
            BY DEF Part
          <6> HIDE DEF U
          <6> QED BY <3>2, <4>1, <6>1, SumEmpty, SumStep
        <5> QED
          BY <3>2, <4>1, <5>1
      <4>2. CASE U # {}
        BY <3>2, <4>2
      <4> QED
        BY <4>1, <4>2
    <3>4. CASE T = S
      BY <2>2, <3>3, <3>4 DEF Step
    <3>5. CASE T # S
      <4>1. h[T] = K(T)[T] /\ Sums(K(T), f, T) /\ Part(T, Symbols) /\ Part(T, T)
        BY <1>2, <1>4, <2>2, <3>5 DEF Part
      <4> HIDE DEF h
      <4>2. K(T)[T] = Step(K(T), f, T)
        BY <2>2, <4>1, SumStep
      <4>3. K(T)[U] = K(U)[U]
        <5>1. Part(U, T) /\ U \in SUBSET U
          BY DEF Part, Rest
        <5> HIDE DEF U
        <5> QED BY <3>2, <4>1, <5>1, SumsAgree
      <4> QED
        BY <2>2, <3>3, <4>1, <4>2, <4>3 DEF Step
    <3> QED
      BY <3>4, <3>5
  <2> QED
    BY <2>1, <2>2
<1>6. h = [T \in SUBSET S |-> h[T]]
  OBVIOUS
<1> HIDE DEF h
<1>7. h = [T \in SUBSET S |-> IF T = {} THEN 0 ELSE f[One(T)] + h[Rest(T)]]
  BY <1>5, <1>6 DEF Step
<1>8. Sums(h, f, S)
  BY <1>7 DEF Sums
<1> QED
  BY <1>2, <1>8

LEMMA SumIsInt ==
  ASSUME NEW f \in [Symbols -> Int], NEW h, Sums(h, f, Symbols)
  PROVE  \A T \in SUBSET Symbols : h[T] \in Int
<1> DEFINE C == {T \in SUBSET Symbols : h[T] \notin Int}
<1> SUFFICES ASSUME C # {} PROVE FALSE
  OBVIOUS
<1>1. PICK T \in C : \A x \in T : T \ {x} \notin C
  <2>1. C \in SUBSET SUBSET Symbols
    OBVIOUS
  <2> HIDE DEF C
  <2> QED
    BY <2>1, SmallestSet
<1>2. Part(T, Symbols) /\ h[T] \notin Int
  BY DEF Part
<1>3. T # {}
  BY <1>2, SumEmpty
<1>5. One(T) \in T /\ h[T] = Step(h, f, T)
  BY <1>2, <1>3, SumStep
<1>4. h[Rest(T)] \in Int /\ f[One(T)] \in Int
  BY <1>1, <1>2, <1>3, <1>5 DEF Part, Rest
<1> QED
  BY <1>2, <1>3, <1>4, <1>5 DEF Step

(* One term changes: so does the sum, by as much. *)
LEMMA SumUpdated ==
  ASSUME NEW f \in [Symbols -> Int], NEW s \in Symbols, NEW v \in Int,
         NEW e, \A x \in Symbols : e[x] = IF x = s THEN v ELSE f[x],
         NEW g, NEW h, Sums(g, f, Symbols), Sums(h, e, Symbols)
  PROVE  h[Symbols] = g[Symbols] + v - f[s]
<1> DEFINE C == {T \in SUBSET Symbols : h[T] # IF s \in T THEN g[T] + v - f[s] ELSE g[T]}
<1>1. \A x \in Symbols : e[x] = IF x = s THEN v ELSE f[x]
  OBVIOUS
<1>2. C = {}
  <2> SUFFICES ASSUME C # {} PROVE FALSE
    OBVIOUS
  <2>1. PICK T \in C : \A x \in T : T \ {x} \notin C
    <3>1. C \in SUBSET SUBSET Symbols
      OBVIOUS
    <3> HIDE DEF C
    <3> QED
      BY <3>1, SmallestSet
  <2>2. T \in SUBSET Symbols /\ Part(T, Symbols) /\ h[T] # IF s \in T THEN g[T] + v - f[s] ELSE g[T]
    BY DEF Part
  <2>3. T # {}
    <3>1. T = {} => g[T] = 0 /\ h[T] = 0 /\ s \notin T
      BY <2>2, SumEmpty
    <3> QED
      BY <2>2, <3>1
  <2>4. /\ One(T) \in T /\ Part(Rest(T), Symbols)
        /\ g[T] = Step(g, f, T)
    BY <2>2, <2>3, SumStep
  <2>5. h[T] = Step(h, e, T)
    BY <2>2, <2>3, SumStep
  <2>6. Rest(T) \notin C
    BY <2>1, <2>4 DEF Rest
  <2> DEFINE U == Rest(T)
  <2>7. h[U] = IF s \in U THEN g[U] + v - f[s] ELSE g[U]
    BY <2>4, <2>6 DEF Part
  <2>8. g[U] \in Int /\ f[s] \in Int /\ f[One(T)] \in Int /\ One(T) \in Symbols
    BY <2>2, <2>4, SumIsInt DEF Part
  <2>9. s \in U <=> s \in T /\ s # One(T)
    BY DEF Rest
  <2> HIDE DEF U, C
  <2>10. g[T] = f[One(T)] + g[U] /\ h[T] = e[One(T)] + h[U]
    BY <2>4, <2>5 DEF U, Step
  <2>11. CASE s = One(T)
    <3>1. e[One(T)] = v /\ s \in T /\ h[U] = g[U]
      BY <1>1, <2>4, <2>7, <2>8, <2>9, <2>11
    <3> QED
      BY <2>2, <2>8, <2>10, <2>11, <3>1
  <2>12. CASE s # One(T)
    <3>1. e[One(T)] = f[One(T)] /\ (s \in U <=> s \in T)
      BY <1>1, <2>8, <2>9, <2>12
    <3> QED
      BY <2>2, <2>7, <2>8, <2>10, <3>1
  <2> QED
    BY <2>11, <2>12
<1>3. Symbols \notin C
  <2> HIDE DEF C
  <2> QED BY <1>2
<1> QED
  BY <1>3

(* The sum of two is the sum of the sums. *)
LEMMA SumOfTwo ==
  ASSUME NEW d \in [Symbols -> Int], NEW e \in [Symbols -> Int],
         NEW f, \A s \in Symbols : f[s] = d[s] + e[s],
         NEW g, NEW h, NEW k, Sums(g, d, Symbols), Sums(h, e, Symbols), Sums(k, f, Symbols)
  PROVE  k[Symbols] = g[Symbols] + h[Symbols]
<1> DEFINE C == {T \in SUBSET Symbols : k[T] # g[T] + h[T]}
<1>1. C = {}
  <2> SUFFICES ASSUME C # {} PROVE FALSE
    OBVIOUS
  <2>1. PICK T \in C : \A x \in T : T \ {x} \notin C
    <3>1. C \in SUBSET SUBSET Symbols
      OBVIOUS
    <3> HIDE DEF C
    <3> QED
      BY <3>1, SmallestSet
  <2>2. T \in SUBSET Symbols /\ Part(T, Symbols) /\ k[T] # g[T] + h[T]
    BY DEF Part
  <2>3. T # {}
    <3>1. T = {} => g[T] = 0 /\ h[T] = 0 /\ k[T] = 0
      BY <2>2, SumEmpty
    <3> QED
      BY <2>2, <3>1
  <2>4. /\ One(T) \in T /\ Part(Rest(T), Symbols)
        /\ g[T] = Step(g, d, T) /\ h[T] = Step(h, e, T) /\ k[T] = Step(k, f, T)
    BY <2>2, <2>3, SumStep
  <2>5. Rest(T) \notin C
    BY <2>1, <2>4 DEF Rest
  <2>6. k[Rest(T)] = g[Rest(T)] + h[Rest(T)]
    BY <2>4, <2>5 DEF Part
  <2>7. /\ g[Rest(T)] \in Int /\ h[Rest(T)] \in Int
        /\ d[One(T)] \in Int /\ e[One(T)] \in Int /\ f[One(T)] = d[One(T)] + e[One(T)]
    BY <2>2, <2>4, SumIsInt DEF Part
  <2> HIDE DEF C
  <2> QED
    BY <2>2, <2>4, <2>6, <2>7 DEF Step
<1>2. Symbols \notin C
  <2> HIDE DEF C
  <2> QED BY <1>1
<1> QED
  BY <1>2

-----------------------------------------------------------------------------
(* The account. *)

(* The sum of f over the symbols. *)
Total(f) == (CHOOSE h : Sums(h, f, Symbols))[Symbols]

LEMMA TotalSums ==
  ASSUME NEW f, NEW h, Sums(h, f, Symbols)
  PROVE  Total(f) = h[Symbols]
<1> DEFINE g == CHOOSE k : Sums(k, f, Symbols)
<1>1. Sums(g, f, Symbols)
  OBVIOUS
<1>2. Part(Symbols, Symbols) /\ Symbols \in SUBSET Symbols
  BY DEF Part
<1> HIDE DEF g
<1>3. g[Symbols] = h[Symbols]
  BY <1>1, <1>2, SumsAgree
<1> QED
  BY <1>3 DEF Total, g

LEMMA TotalExists ==
  ASSUME NEW f
  PROVE  \E h : Sums(h, f, Symbols) /\ Total(f) = h[Symbols]
<1>1. PICK h : Sums(h, f, Symbols)
  BY SumsExist
<1> QED
  BY <1>1, TotalSums

LEMMA TotalUpdated ==
  ASSUME NEW f \in [Symbols -> Int], NEW s \in Symbols, NEW v \in Int
  PROVE  Total([f EXCEPT ![s] = v]) = Total(f) + v - f[s] /\ Total(f) \in Int
<1>0. PICK e : e = [f EXCEPT ![s] = v]
  OBVIOUS
<1>5. \A x \in Symbols : e[x] = IF x = s THEN v ELSE f[x]
  BY <1>0
<1>1. PICK g : Sums(g, f, Symbols) /\ Total(f) = g[Symbols]
  BY TotalExists
<1>2. PICK h : Sums(h, e, Symbols) /\ Total(e) = h[Symbols]
  BY TotalExists
<1>3. h[Symbols] = g[Symbols] + v - f[s]
  BY <1>1, <1>2, <1>5, SumUpdated
<1>4. g[Symbols] \in Int
  BY <1>1, SumIsInt
<1> QED
  BY <1>0, <1>1, <1>2, <1>3, <1>4

LEMMA TotalOfTwo ==
  ASSUME NEW d \in [Symbols -> Int], NEW e \in [Symbols -> Int],
         NEW f, \A s \in Symbols : f[s] = d[s] + e[s]
  PROVE  Total(f) = Total(d) + Total(e) /\ Total(d) \in Int /\ Total(e) \in Int
<1>1. PICK g, h, k : /\ Sums(g, d, Symbols) /\ Total(d) = g[Symbols]
                     /\ Sums(h, e, Symbols) /\ Total(e) = h[Symbols]
                     /\ Sums(k, f, Symbols) /\ Total(f) = k[Symbols]
  BY TotalExists
<1>2. k[Symbols] = g[Symbols] + h[Symbols]
  BY <1>1, SumOfTwo
<1>3. g[Symbols] \in Int /\ h[Symbols] \in Int
  BY <1>1, SumIsInt
<1> QED
  BY <1>1, <1>2, <1>3

(* The sum of a function that is nowhere anything but 0. *)
LEMMA TotalOfNothing == Total([s \in Symbols |-> 0]) = 0
<1> DEFINE z == [s \in Symbols |-> 0]
<1>1. z \in [Symbols -> Int] /\ \A s \in Symbols : z[s] = z[s] + z[s]
  OBVIOUS
<1> HIDE DEF z
<1>2. Total(z) = Total(z) + Total(z) /\ Total(z) \in Int
  BY <1>1, TotalOfTwo
<1>3. \A t \in Int : t = t + t => t = 0
  OBVIOUS
<1>4. Total(z) = 0
  BY <1>2, <1>3
<1> QED
  BY <1>4 DEF z

(* What the model calls a sum over the symbols is one. *)
Worth == [s \in Symbols |-> position[s] * price[s] - paid[s]]

LEMMA TotalMarginIs == TotalMargin = margin + Total(unrealised)
BY DEF TotalMargin, MapThenSumSet, MapThenFoldSet, Total, Sums, One, Rest

LEMMA WorthIs ==
  MapThenSumSet(LAMBDA s : position[s] * price[s] - paid[s], Symbols) = Total(Worth)
<1> DEFINE By(h) == h = [T \in SUBSET Symbols |->
                           IF T = {} THEN 0
                           ELSE (position[One(T)] * price[One(T)] - paid[One(T)]) + h[Rest(T)]]
<1>1. ASSUME NEW h PROVE By(h) <=> Sums(h, Worth, Symbols)
  <2>1. ASSUME NEW T \in SUBSET Symbols, T # {}
        PROVE  Worth[One(T)] = position[One(T)] * price[One(T)] - paid[One(T)]
    BY <2>1, OneOf DEF Worth
  <2> QED
    BY <2>1 DEF Sums
<1>2. MapThenSumSet(LAMBDA s : position[s] * price[s] - paid[s], Symbols) = (CHOOSE h : By(h))[Symbols]
  BY DEF MapThenSumSet, MapThenFoldSet, One, Rest
<1>3. \E h : By(h)
  BY <1>1, SumsExist
<1> HIDE DEF By
<1>4. By(CHOOSE h : By(h))
  BY <1>3
<1>5. PICK h : h = (CHOOSE k : By(k))
  OBVIOUS
<1>6. Sums(h, Worth, Symbols)
  BY <1>1, <1>4, <1>5
<1> QED
  BY <1>2, <1>5, <1>6, TotalSums

(***************************************************************************)
(* The margin is what the trades have reported, less the fees.             *)
(***************************************************************************)
MarginInv == margin = InitMargin - fees + Total(wnl)

LEMMA InitMarginInv == Init => MarginInv
BY TotalOfNothing, AccountAssumption DEF Init, MarginInv

LEMMA NextMarginInv ==
  ASSUME IInv, MarginInv, IInv', [Next]_vars
  PROVE  MarginInv'
<1>1. ASSUME NEW s \in Symbols, NEW p \in Prices, NEW q \in Quantities, Fill(s, q, p)
      PROVE  MarginInv'
  <2>1. p \in Nat /\ q \in Int /\ position[s] \in Int /\ avg[s] \in Nat
    BY AccountAssumption DEF IInv, TypeOK
  <2>2. Profit(s, p) \in Int
    BY <2>1 DEF Profit
  <2>3. (p * Size(q) * FeePercent) \div 100 \in Int
    BY <2>1, AccountAssumption DEF Size
  <2>4. SameSide(position[s], -q) => Quotient(Profit(s, p) * (-q), position[s]) \in Int
    <3>1. ASSUME NEW n \in Int, NEW d \in Int, d # 0 PROVE Quotient(n, d) \in Int
      BY <3>1 DEF Quotient
    <3>2. SameSide(position[s], -q) => position[s] # 0
      BY <2>1 DEF SameSide
    <3>3. PICK n \in Int : n = Profit(s, p) * (-q)
      BY <2>1, <2>2
    <3> QED
      BY <2>1, <3>1, <3>2, <3>3
  <2>5. PICK realised \in Int, fee \in Int :
               /\ wnl' = [wnl EXCEPT ![s] = wnl[s] + realised]
               /\ margin' = margin + realised - fee
               /\ fees' = fees + fee
    <3>1. PICK fee \in Int : fee = (p * Size(q) * FeePercent) \div 100
      BY <2>3
    <3>2. \E realised \in Int : /\ wnl' = [wnl EXCEPT ![s] = wnl[s] + realised]
                                /\ margin' = margin + realised - fee
                                /\ fees' = fees + fee
      <4>1. CASE Opens(s, q, p) \/ Adds(s, q, p)
        <5>1. PICK r \in Int : r = 0
          OBVIOUS
        <5>2. /\ wnl' = [wnl EXCEPT ![s] = wnl[s] + r] /\ margin' = margin + r - fee
              /\ fees' = fees + fee
          BY <3>1, <4>1, <5>1 DEF Opens, Adds, Settle
        <5> QED
          BY <5>2
      <4>2. CASE Flips(s, q, p)
        <5>1. /\ wnl' = [wnl EXCEPT ![s] = wnl[s] + Profit(s, p)]
              /\ margin' = margin + Profit(s, p) - fee /\ fees' = fees + fee
          BY <3>1, <4>2 DEF Flips, Settle
        <5> QED
          BY <2>2, <5>1
      <4>3. CASE Closes(s, q, p)
        <5>1. PICK r \in Int : r = Quotient(Profit(s, p) * (-q), position[s])
          BY <2>4, <4>3 DEF Closes
        <5>2. /\ wnl' = [wnl EXCEPT ![s] = wnl[s] + r]
              /\ margin' = margin + r - fee /\ fees' = fees + fee
          BY <3>1, <4>3, <5>1 DEF Closes, Settle
        <5> QED
          BY <5>2
      <4> QED
        BY <1>1, <4>1, <4>2, <4>3 DEF Fill
    <3> QED
      BY <3>2
  <2>6. PICK v : v = wnl[s] + realised
    OBVIOUS
  <2>7. /\ wnl \in [Symbols -> Int] /\ wnl[s] \in Int /\ v \in Int /\ margin \in Int /\ fees \in Int
    BY <2>6 DEF IInv, TypeOK
  <2>8. Total([wnl EXCEPT ![s] = v]) = Total(wnl) + v - wnl[s] /\ Total(wnl) \in Int
    BY <2>7, TotalUpdated
  <2>9. Total(wnl)' = Total(wnl) + realised
    <3>1. wnl' = [wnl EXCEPT ![s] = v]
      BY <2>5, <2>6
    <3>2. Total(wnl)' = Total([wnl EXCEPT ![s] = v])
      BY <3>1 DEF Total, Sums
    <3> QED
      BY <2>6, <2>7, <2>8, <3>2
  <2>10. InitMargin \in Int
    BY AccountAssumption
  <2>11. margin' = InitMargin - fees' + Total(wnl)'
    BY <2>5, <2>7, <2>8, <2>9, <2>10 DEF MarginInv
  <2> QED
    BY <2>11 DEF MarginInv
<1>2. CASE (\E s \in Symbols, p \in Prices : Mark(s, p)) \/ UNCHANGED vars
  <2>1. UNCHANGED <<margin, fees, wnl>>
    BY <1>2 DEF Mark, vars
  <2> QED
    BY <2>1 DEF MarginInv, Total, Sums
<1> QED
  BY <1>1, <1>2 DEF Next

(***************************************************************************)
(* The account adds up, for any number of symbols that share the margin:   *)
(* margin and open profits are the initial margin, less the fees and what  *)
(* the fills cost, plus the worth of what is held.  Symbol by symbol this  *)
(* is what the trades report and what is open; the margin collects it.     *)
(***************************************************************************)
THEOREM MarginAddsUp == Spec => []AccountAddsUp
<1>1. IInv /\ MarginInv => AccountAddsUp
  <2> SUFFICES ASSUME IInv, MarginInv PROVE AccountAddsUp
    OBVIOUS
  <2>1. /\ unrealised \in [Symbols -> Int] /\ wnl \in [Symbols -> Int]
        /\ margin \in Int /\ fees \in Int /\ InitMargin \in Int
    BY AccountAssumption DEF IInv, TypeOK
  <2>2. ASSUME NEW s \in Symbols PROVE Worth[s] = unrealised[s] + wnl[s]
    <3>1. /\ position[s] \in Int /\ price[s] \in Int /\ avg[s] \in Int /\ paid[s] \in Int
      BY DEF IInv, TypeOK
    <3>2. /\ unrealised[s] = position[s] * (price[s] - avg[s])
          /\ wnl[s] = avg[s] * position[s] - paid[s]
      BY DEF IInv, MarkedToPrice, ReportedIsCashFlow
    <3>3. Worth[s] = position[s] * price[s] - paid[s]
      BY DEF Worth
    <3>4. \A i, j, k, l \in Int : i * j - l = i * (j - k) + (k * i - l)
      BY SMTT(30)
    <3> QED
      BY <3>1, <3>2, <3>3, <3>4
  <2>3. PICK f, d, e : f = Worth /\ d = unrealised /\ e = wnl
    OBVIOUS
  <2>4. Total(f) = Total(d) + Total(e) /\ Total(d) \in Int /\ Total(e) \in Int
    <3>1. d \in [Symbols -> Int] /\ e \in [Symbols -> Int] /\ \A s \in Symbols : f[s] = d[s] + e[s]
      BY <2>1, <2>2, <2>3
    <3> QED
      BY <3>1, TotalOfTwo
  <2>5. TotalMargin = InitMargin - fees + Total(Worth)
    <3>1. /\ TotalMargin = margin + Total(d) /\ margin = InitMargin - fees + Total(e)
          /\ Total(Worth) = Total(d) + Total(e)
      BY <2>3, <2>4, TotalMarginIs DEF MarginInv
    <3> QED
      BY <2>1, <2>4, <3>1
  <2> QED
    BY <2>5, WorthIs DEF AccountAddsUp
<1>2. IInv /\ MarginInv /\ IInv' /\ [Next]_vars => MarginInv'
  BY NextMarginInv
<1> QED
  BY <1>1, <1>2, InitMarginInv, AccountInvariant, PTL DEF Spec

=============================================================================

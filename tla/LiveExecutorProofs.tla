------------------------- MODULE LiveExecutorProofs -------------------------
(***************************************************************************)
(* Proofs about LiveExecutor: for any actions, any pool, any number of     *)
(* tries, and in every order in which the engine, the pool, the exchange,  *)
(* the stream, timeouts and restarts can act, an action that closes never  *)
(* opens, an action that did nothing is under way or reported, fills are   *)
(* recorded once, each is paired with its own decision or with none, and   *)
(* at rest the strategy sees the account as it is.                         *)
(***************************************************************************)
EXTENDS LiveExecutor, SequenceTheorems, FiniteSetTheorems, TLAPS

Sequence(s) == s \in Seq({s[i] : i \in DOMAIN s})

(* An order, a decision, and a request; every order and every request      *)
(* belongs to a decision, and one that carries out a pure reduction is     *)
(* reduce-only.                                                            *)
IsOrder(o, ds) ==
  /\ o = [id |-> o.id, kind |-> o.kind, reduce |-> o.reduce, quantity |-> o.quantity,
          executed |-> o.executed, fills |-> o.fills, state |-> o.state,
          decision |-> o.decision]
  /\ o.quantity \in Int /\ o.executed \in Int
  /\ o.decision \in DOMAIN ds
  /\ o.id = ds[o.decision].id
  /\ \/ o.kind = ds[o.decision].kind
     \/ o.kind = "market" /\ ds[o.decision].kind = "stop"
  /\ ds[o.decision].kind # "cancel"
  /\ ds[o.decision].closing => o.reduce

IsDecision(d) ==
  /\ d = [kind |-> d.kind, id |-> d.id, closing |-> d.closing, placed |-> d.placed]
  /\ d.placed \in Nat

IsRequest(r, ds) ==
  /\ r = [action |-> r.action, tries |-> r.tries, waited |-> r.waited, decision |-> r.decision]
  /\ r.decision \in DOMAIN ds
  /\ r.action.id = ds[r.decision].id
  /\ r.action.kind = ds[r.decision].kind
  /\ r.action.kind # "cancel" =>
       r.action.quantity \in Int /\ (ds[r.decision].closing => r.action.reduce)

OrdersInv ==
  /\ xposition \in Int
  /\ Sequence(orders) /\ \A k \in DOMAIN orders : IsOrder(orders[k], decisions)
DecisionsInv ==
  Sequence(decisions) /\ \A n \in DOMAIN decisions : IsDecision(decisions[n])

(* A request nobody waits for any more has been reported.                  *)
RequestsInv ==
  /\ Sequence(requests)
  /\ \A i \in DOMAIN requests :
       /\ IsRequest(requests[i], decisions)
       /\ requests[i].waited \/ requests[i].decision \in reported

LifeInv ==
  life = [restarts |-> life.restarts, drops |-> life.drops, timeouts |-> life.timeouts,
          orders |-> life.orders, decisions |-> life.decisions]

(***************************************************************************)
(* The inductive invariant.                                                *)
(***************************************************************************)
ExecutorInv == OrdersInv /\ DecisionsInv /\ RequestsInv /\ LifeInv /\ NoSilentFailure

-----------------------------------------------------------------------------
(* Sequences. *)

LEMMA SequenceOf ==
  ASSUME NEW T, NEW s \in Seq(T)
  PROVE  Sequence(s) /\ Len(s) \in Nat /\ DOMAIN s = 1..Len(s)
<1> DEFINE S == {s[i] : i \in DOMAIN s}
<1>1. Len(s) \in Nat /\ DOMAIN s = 1..Len(s) /\ s \in [1..Len(s) -> T]
  BY LenProperties
<1>2. s \in [1..Len(s) -> S]
  BY <1>1
<1>3. s \in Seq(S)
  <2> HIDE DEF S
  <2> QED
    BY <1>1, <1>2, SeqDef
<1> QED
  BY <1>1, <1>3 DEF Sequence

LEMMA SequenceIn ==
  ASSUME NEW s, Sequence(s), NEW T, \A i \in DOMAIN s : s[i] \in T
  PROVE  s \in Seq(T) /\ Len(s) \in Nat /\ DOMAIN s = 1..Len(s)
<1> DEFINE S == {s[i] : i \in DOMAIN s}
<1>1. s \in Seq(S) /\ S \subseteq T
  BY DEF Sequence
<1>2. s \in Seq(T)
  <2> HIDE DEF S
  <2> QED
    BY <1>1, SeqMonotonic
<1> QED
  BY <1>2, LenProperties

LEMMA AppendSequence ==
  ASSUME NEW s, Sequence(s), NEW e
  PROVE  /\ Sequence(Append(s, e))
         /\ Len(s) \in Nat /\ DOMAIN s = 1..Len(s)
         /\ Len(Append(s, e)) = Len(s) + 1
         /\ DOMAIN Append(s, e) = DOMAIN s \cup {Len(s) + 1}
         /\ \A i \in DOMAIN s : i # Len(s) + 1 /\ Append(s, e)[i] = s[i]
         /\ Append(s, e)[Len(s) + 1] = e
<1> DEFINE T == {s[i] : i \in DOMAIN s} \cup {e}
<1>1. e \in T /\ \A i \in DOMAIN s : s[i] \in T
  OBVIOUS
<1> HIDE DEF T
<1>2. s \in Seq(T) /\ Len(s) \in Nat /\ DOMAIN s = 1..Len(s)
  BY <1>1, SequenceIn
<1>3. /\ Append(s, e) \in Seq(T) /\ Len(Append(s, e)) = Len(s) + 1
      /\ \A i \in 1..Len(s) : Append(s, e)[i] = s[i]
      /\ Append(s, e)[Len(s) + 1] = e
  BY <1>1, <1>2, AppendProperties
<1>4. Sequence(Append(s, e)) /\ DOMAIN Append(s, e) = 1..(Len(s) + 1)
  BY <1>3, SequenceOf
<1> QED
  BY <1>2, <1>3, <1>4

LEMMA UpdatedSequence ==
  ASSUME NEW s, Sequence(s), NEW t, t = [i \in DOMAIN s |-> t[i]]
  PROVE  Sequence(t) /\ DOMAIN t = DOMAIN s /\ Len(t) = Len(s)
<1> DEFINE T == {t[i] : i \in DOMAIN s}
           S == {s[i] : i \in DOMAIN s}
<1>1. Len(s) \in Nat /\ DOMAIN s = 1..Len(s)
  <2>1. \A i \in DOMAIN s : s[i] \in S
    OBVIOUS
  <2> HIDE DEF S
  <2> QED
    BY <2>1, SequenceIn
<1>2. t \in [1..Len(s) -> T]
  BY <1>1
<1>3. t \in Seq(T)
  <2> HIDE DEF T
  <2> QED
    BY <1>1, <1>2, SeqDef
<1> HIDE DEF T, S
<1>4. Sequence(t) /\ Len(t) \in Nat /\ DOMAIN t = 1..Len(t)
  BY <1>3, SequenceOf
<1>5. DOMAIN t = 1..Len(s)
  BY <1>2
<1>6. Len(t) = Len(s)
  BY <1>1, <1>4, <1>5
<1> QED
  BY <1>1, <1>4, <1>5, <1>6

(***************************************************************************)
(* RemoveAt takes away one item and keeps the others.                      *)
(***************************************************************************)
LEMMA RemovedSequence ==
  ASSUME NEW s, Sequence(s), NEW i \in DOMAIN s
  PROVE  /\ Sequence(RemoveAt(s, i))
         /\ \A k \in DOMAIN RemoveAt(s, i) : \E j \in DOMAIN s : RemoveAt(s, i)[k] = s[j]
         /\ \A j \in DOMAIN s : j # i => \E k \in DOMAIN RemoveAt(s, i) : RemoveAt(s, i)[k] = s[j]
<1> DEFINE T == {s[j] : j \in DOMAIN s}
           before == SubSeq(s, 1, i - 1)
           after == SubSeq(s, i + 1, Len(s))
           n == Len(s)
           r == RemoveAt(s, i)
<1>1. \A j \in DOMAIN s : s[j] \in T
  OBVIOUS
<1> HIDE DEF T
<1>2. s \in Seq(T) /\ n \in Nat /\ DOMAIN s = 1..n
  BY <1>1, SequenceIn
<1>3. i \in Nat /\ 1 <= i /\ i <= n
  BY <1>2
<1>4. /\ before \in Seq(T) /\ Len(before) = i - 1
      /\ \A j \in 1..(i - 1) : before[j] = s[j]
  <2>1. \A j \in 1..(i - 1) : s[j] \in T
    BY <1>1, <1>2, <1>3
  <2>2. 1 \in Int /\ i - 1 \in Int
    BY <1>3
  <2>3. /\ before \in Seq(T) /\ Len(before) = IF 1 <= i - 1 THEN (i - 1) - 1 + 1 ELSE 0
        /\ \A j \in 1..((i - 1) - 1 + 1) : before[j] = s[1 + j - 1]
    BY <2>1, <2>2, SubSeqProperties
  <2> HIDE DEF before
  <2> QED
    BY <1>3, <2>3
<1>5. /\ after \in Seq(T) /\ Len(after) = n - i
      /\ \A j \in 1..(n - i) : after[j] = s[i + j]
  <2>1. \A j \in (i + 1)..n : s[j] \in T
    BY <1>1, <1>2, <1>3
  <2>2. i + 1 \in Int /\ n \in Int
    BY <1>2, <1>3
  <2>3. /\ after \in Seq(T) /\ Len(after) = IF i + 1 <= n THEN n - (i + 1) + 1 ELSE 0
        /\ \A j \in 1..(n - (i + 1) + 1) : after[j] = s[(i + 1) + j - 1]
    BY <2>1, <2>2, SubSeqProperties
  <2> HIDE DEF after, n
  <2>4. Len(after) = n - i
    BY <1>2, <1>3, <2>3
  <2>5. ASSUME NEW j \in 1..(n - i) PROVE after[j] = s[i + j]
    <3>1. j \in 1..(n - (i + 1) + 1) /\ (i + 1) + j - 1 = i + j
      BY <1>2, <1>3
    <3>2. after[j] = s[(i + 1) + j - 1]
      BY <2>3, <3>1
    <3> QED
      BY <3>1, <3>2
  <2> QED
    BY <2>3, <2>4, <2>5
<1>6. r = before \o after
  BY DEF RemoveAt
<1> HIDE DEF before, after, n, r
<1>7. /\ r \in Seq(T) /\ Len(r) = n - 1
      /\ \A k \in 1..(n - 1) : r[k] = IF k <= i - 1 THEN before[k] ELSE after[k - (i - 1)]
  <2>1. /\ r \in Seq(T) /\ Len(r) = Len(before) + Len(after)
        /\ \A k \in 1..(Len(before) + Len(after)) :
             r[k] = IF k <= Len(before) THEN before[k] ELSE after[k - Len(before)]
    BY <1>4, <1>5, <1>6, ConcatProperties
  <2>2. Len(before) + Len(after) = n - 1
    BY <1>2, <1>3, <1>4, <1>5
  <2> QED
    BY <1>4, <2>1, <2>2
<1>8. Sequence(r) /\ DOMAIN r = 1..(n - 1)
  BY <1>7, SequenceOf
<1>9. ASSUME NEW k \in 1..(n - 1) PROVE r[k] = IF k <= i - 1 THEN s[k] ELSE s[k + 1]
  <2>1. CASE k <= i - 1
    <3>1. k \in 1..(i - 1)
      BY <1>3, <2>1
    <3> QED
      BY <1>4, <1>7, <2>1, <3>1
  <2>2. CASE ~(k <= i - 1)
    <3>1. k - (i - 1) \in 1..(n - i) /\ i + (k - (i - 1)) = k + 1
      BY <1>2, <1>3, <2>2
    <3>2. r[k] = after[k - (i - 1)]
      BY <1>7, <2>2
    <3> QED
      BY <1>5, <2>2, <3>1, <3>2
  <2> QED
    BY <2>1, <2>2
<1>10. ASSUME NEW k \in DOMAIN r PROVE \E j \in DOMAIN s : r[k] = s[j]
  <2>1. k \in 1..(n - 1) /\ k \in 1..n /\ k + 1 \in 1..n
    BY <1>2, <1>3, <1>8
  <2> QED
    BY <1>2, <1>9, <2>1
<1>11. ASSUME NEW j \in DOMAIN s, j # i PROVE \E k \in DOMAIN r : r[k] = s[j]
  <2>1. CASE j < i
    <3>1. j \in 1..(n - 1) /\ j <= i - 1
      BY <1>2, <1>3, <2>1
    <3> QED
      BY <1>8, <1>9, <3>1
  <2>2. CASE ~(j < i)
    <3>1. j - 1 \in 1..(n - 1) /\ ~(j - 1 <= i - 1) /\ (j - 1) + 1 = j
      BY <1>2, <1>3, <1>11, <2>2
    <3>2. r[j - 1] = s[(j - 1) + 1]
      BY <1>9, <3>1
    <3> QED
      BY <1>8, <3>1, <3>2
  <2> QED
    BY <2>1, <2>2
<1> QED
  BY <1>8, <1>10, <1>11 DEF r

LEMMA EmptySequence == Sequence(<<>>) /\ DOMAIN <<>> = {} /\ Len(<<>>) = 0
<1>1. <<>> \in Seq({}) /\ Len(<<>>) = 0
  OBVIOUS
<1>2. Sequence(<<>>) /\ DOMAIN <<>> = 1..0
  BY <1>1, SequenceOf
<1>3. 1..0 = {}
  OBVIOUS
<1> QED
  BY <1>1, <1>2, <1>3

-----------------------------------------------------------------------------
LEMMA InitExecutor == Init => ExecutorInv
<1> SUFFICES ASSUME Init PROVE ExecutorInv
  OBVIOUS
<1>1. xposition \in Int /\ orders = <<>> /\ decisions = <<>> /\ requests = <<>>
  BY ActionAssumption DEF Init, ExchangeInit
<1>2. OrdersInv /\ DecisionsInv /\ RequestsInv
  BY <1>1, EmptySequence DEF OrdersInv, DecisionsInv, RequestsInv
<1>3. LifeInv
  BY DEF Init, LifeInv
<1>4. NoSilentFailure
  BY <1>1, EmptySequence DEF NoSilentFailure
<1> QED
  BY <1>2, <1>3, <1>4 DEF ExecutorInv

-----------------------------------------------------------------------------
(* Decisions are only added, and nothing but placed changes in one.        *)
DecisionsGrow ==
  /\ DOMAIN decisions \subseteq DOMAIN decisions'
  /\ \A n \in DOMAIN decisions : /\ decisions'[n].closing = decisions[n].closing
                                /\ decisions'[n].kind = decisions[n].kind
                                /\ decisions'[n].id = decisions[n].id

LEMMA StayRight ==
  ASSUME DecisionsGrow
  PROVE  /\ \A o : IsOrder(o, decisions) => IsOrder(o, decisions')
         /\ \A r : IsRequest(r, decisions) => IsRequest(r, decisions')
BY DEF DecisionsGrow, IsOrder, IsRequest

LEMMA PlacedCounted ==
  ASSUME DecisionsInv, NEW d \in DOMAIN decisions, CountPlaced(d)
  PROVE  /\ DecisionsInv' /\ DecisionsGrow /\ DOMAIN decisions' = DOMAIN decisions
         /\ \A n \in DOMAIN decisions : decisions[n].placed > 0 => decisions'[n].placed > 0
         /\ decisions'[d].placed > 0
<1>1. /\ Sequence(decisions) /\ \A n \in DOMAIN decisions : IsDecision(decisions[n])
      /\ decisions' = [decisions EXCEPT ![d].placed = @ + 1]
  BY DEF DecisionsInv, CountPlaced
<1>2. /\ decisions' = [n \in DOMAIN decisions |-> decisions'[n]]
      /\ \A n \in DOMAIN decisions : n # d => decisions'[n] = decisions[n]
      /\ decisions'[d] = [decisions[d] EXCEPT !.placed = @ + 1]
  BY <1>1
<1>3. Sequence(decisions') /\ DOMAIN decisions' = DOMAIN decisions
  BY <1>1, <1>2, UpdatedSequence
<1>4. /\ decisions[d] = [kind |-> decisions[d].kind, id |-> decisions[d].id,
                         closing |-> decisions[d].closing, placed |-> decisions[d].placed]
      /\ decisions[d].placed \in Nat
  BY <1>1 DEF IsDecision
<1>5. decisions'[d] = [kind |-> decisions[d].kind, id |-> decisions[d].id,
                       closing |-> decisions[d].closing, placed |-> decisions[d].placed + 1]
  BY <1>2, <1>4
<1>6. IsDecision(decisions'[d]) /\ decisions'[d].placed > 0
  BY <1>4, <1>5 DEF IsDecision
<1>7. DecisionsInv'
  BY <1>1, <1>2, <1>3, <1>6 DEF DecisionsInv
<1>8. DecisionsGrow
  BY <1>2, <1>3, <1>5 DEF DecisionsGrow
<1> QED
  BY <1>2, <1>3, <1>6, <1>7, <1>8

-----------------------------------------------------------------------------
(* The exchange. *)

LEMMA Placed ==
  ASSUME OrdersInv, NEW a, NEW d \in DOMAIN decisions, Place(a, d),
         a.quantity \in Int, decisions[d].closing => a.reduce,
         a.id = decisions[d].id, a.kind = decisions[d].kind, a.kind # "cancel"
  PROVE  /\ xposition' \in Int /\ Sequence(orders')
         /\ \A k \in DOMAIN orders' : IsOrder(orders'[k], decisions)
         /\ \A k \in DOMAIN orders : orders'[k] = orders[k]
<1> DEFINE o == [id |-> a.id, kind |-> a.kind, reduce |-> a.reduce, quantity |-> a.quantity,
                 executed |-> 0, fills |-> 0, state |-> "open", decision |-> d]
<1>1. orders' = Append(orders, o) /\ xposition' = xposition
  BY DEF Place, Enters
<1>2. IsOrder(o, decisions)
  BY DEF IsOrder
<1>3. Sequence(orders) /\ xposition \in Int /\ \A k \in DOMAIN orders : IsOrder(orders[k], decisions)
  BY DEF OrdersInv
<1> HIDE DEF o
<1>4. /\ Sequence(orders')
      /\ DOMAIN orders' = DOMAIN orders \cup {Len(orders) + 1}
      /\ \A k \in DOMAIN orders : orders'[k] = orders[k]
      /\ orders'[Len(orders) + 1] = o
  BY <1>1, <1>3, AppendSequence
<1> QED
  BY <1>1, <1>2, <1>3, <1>4

LEMMA Closed ==
  ASSUME OrdersInv, NEW numbers, Withdrawn(numbers)
  PROVE  /\ Sequence(orders')
         /\ \A k \in DOMAIN orders' : IsOrder(orders'[k], decisions)
         /\ \A k \in DOMAIN orders : orders'[k].executed = orders[k].executed
<1>1. /\ Sequence(orders) /\ \A k \in DOMAIN orders : IsOrder(orders[k], decisions)
      /\ orders' = [k \in DOMAIN orders |->
                     IF k \in numbers THEN [orders[k] EXCEPT !.state = "done"] ELSE orders[k]]
  BY DEF OrdersInv, Withdrawn
<1>2. orders' = [k \in DOMAIN orders |-> orders'[k]]
  BY <1>1
<1>3. Sequence(orders') /\ DOMAIN orders' = DOMAIN orders
  BY <1>1, <1>2, UpdatedSequence
<1>4. ASSUME NEW k \in DOMAIN orders
      PROVE  IsOrder(orders'[k], decisions) /\ orders'[k].executed = orders[k].executed
  <2>1. CASE k \in numbers
    <3>1. orders'[k] = [orders[k] EXCEPT !.state = "done"]
      BY <1>1, <2>1
    <3>2. IsOrder(orders[k], decisions)
      BY <1>1
    <3>3. orders'[k] = [id |-> orders[k].id, kind |-> orders[k].kind, reduce |-> orders[k].reduce,
                        quantity |-> orders[k].quantity, executed |-> orders[k].executed,
                        fills |-> orders[k].fills, state |-> "done",
                        decision |-> orders[k].decision]
      BY <3>1, <3>2 DEF IsOrder
    <3> QED
      BY <3>2, <3>3 DEF IsOrder
  <2>2. CASE k \notin numbers
    BY <1>1, <2>2
  <2> QED
    BY <2>1, <2>2
<1> QED
  BY <1>3, <1>4

(***************************************************************************)
(* A reduce-only order that has something to reduce, and executes no more  *)
(* than that, brings the position nearer to zero, and not past it.         *)
(***************************************************************************)
LEMMA ReducingStep ==
  ASSUME NEW x \in Int, NEW q \in Int, x * q < 0, NEW n \in Int, 1 <= n, n <= Magnitude(x)
  PROVE  /\ Magnitude(x + Sign(q) * n) < Magnitude(x)
         /\ (x + Sign(q) * n) * x >= 0
<1>1. (x > 0 /\ q < 0) \/ (x < 0 /\ q > 0)
  <2>1. ~(x >= 0 /\ q >= 0)
    OBVIOUS
  <2>2. ~(x <= 0 /\ q <= 0)
    OBVIOUS
  <2> QED
    BY <2>1, <2>2
<1>2. CASE x > 0 /\ q < 0
  <2>1. x + Sign(q) * n = x - n /\ Magnitude(x) = x
    BY <1>2 DEF Sign, Magnitude
  <2>2. x - n \in Int /\ 0 <= x - n /\ x - n < x
    BY <2>1
  <2>3. (x - n) * x >= 0
    BY <1>2, <2>2
  <2> QED
    BY <2>1, <2>2, <2>3 DEF Magnitude
<1>3. CASE x < 0 /\ q > 0
  <2>1. x + Sign(q) * n = x + n /\ Magnitude(x) = -x
    BY <1>3 DEF Sign, Magnitude
  <2>2. x + n \in Int /\ x + n <= 0 /\ -(x + n) < -x
    BY <2>1
  <2>3. (x + n) * x >= 0
    BY <1>3, <2>2
  <2> QED
    BY <2>1, <2>2, <2>3 DEF Magnitude
<1> QED
  BY <1>1, <1>2, <1>3

(* No execution of a reduce-only order opens, grows or flips the position. *)
ReduceOnlyReduces ==
  \A k \in DOMAIN orders :
    orders'[k].executed # orders[k].executed /\ orders[k].reduce =>
      /\ Magnitude(xposition') < Magnitude(xposition)
      /\ xposition' * xposition >= 0

LEMMA Executed ==
  ASSUME OrdersInv, NEW k \in DOMAIN orders, Execute(k)
  PROVE  /\ xposition' \in Int /\ Sequence(orders')
         /\ \A j \in DOMAIN orders' : IsOrder(orders'[j], decisions)
         /\ ReduceOnlyReduces
<1> DEFINE o == orders[k]
           left == Magnitude(o.quantity - o.executed)
           limit == IF o.reduce /\ Magnitude(xposition) < left THEN Magnitude(xposition) ELSE left
<1>1. /\ xposition \in Int /\ Sequence(orders)
      /\ \A j \in DOMAIN orders : IsOrder(orders[j], decisions)
  BY DEF OrdersInv
<1>2. o.quantity \in Int /\ o.executed \in Int
  BY <1>1 DEF IsOrder
<1>3. left \in Int /\ Magnitude(xposition) \in Int
  BY <1>1, <1>2 DEF Magnitude
<1>4. PICK n \in 1..limit :
        /\ xposition' = xposition + Sign(o.quantity) * n
        /\ orders' = [orders EXCEPT
             ![k].executed = @ + Sign(o.quantity) * n,
             ![k].fills = @ + 1,
             ![k].state = IF n = left THEN "done" ELSE "open"]
  BY DEF Execute
<1>5. o.reduce => xposition * o.quantity < 0
  BY DEF Execute, Reduces
<1>6. n \in Int /\ 1 <= n /\ (o.reduce => n <= Magnitude(xposition))
  <2> HIDE DEF left
  <2> QED
    BY <1>3, <1>4
<1>7. Sign(o.quantity) \in Int /\ Sign(o.quantity) * n \in Int
  <2>1. Sign(o.quantity) \in Int
    BY <1>2 DEF Sign
  <2> QED
    BY <1>6, <2>1
<1>8. xposition' \in Int
  BY <1>1, <1>4, <1>7
<1> DEFINE st == IF n = left THEN "done" ELSE "open"
           e == o.executed + Sign(o.quantity) * n
           f == o.fills + 1
<1>9. /\ orders' = [j \in DOMAIN orders |-> orders'[j]]
      /\ \A j \in DOMAIN orders : j # k => orders'[j] = orders[j]
      /\ orders'[k] = [id |-> o.id, kind |-> o.kind, reduce |-> o.reduce,
                       quantity |-> o.quantity, executed |-> o.executed + Sign(o.quantity) * n,
                       fills |-> o.fills + 1, state |-> st, decision |-> o.decision]
  <2>1. o = [id |-> o.id, kind |-> o.kind, reduce |-> o.reduce, quantity |-> o.quantity,
             executed |-> o.executed, fills |-> o.fills, state |-> o.state,
             decision |-> o.decision]
    BY <1>1 DEF IsOrder
  <2>2. /\ orders' = [j \in DOMAIN orders |-> orders'[j]]
        /\ \A j \in DOMAIN orders : j # k => orders'[j] = orders[j]
        /\ orders'[k] = [o EXCEPT !.executed = e, !.fills = f, !.state = st]
    <3> HIDE DEF left, limit
    <3> QED
      BY <1>4
  <2>3. [o EXCEPT !.executed = e, !.fills = f, !.state = st]
          = [id |-> o.id, kind |-> o.kind, reduce |-> o.reduce,
             quantity |-> o.quantity, executed |-> e,
             fills |-> f, state |-> st, decision |-> o.decision]
    <3> HIDE DEF o, st, left, limit, e, f
    <3> DEFINE names == {"id", "kind", "reduce", "quantity", "executed", "fills", "state", "decision"}
    <3>1. DOMAIN o = names
      BY <2>1
    <3>2. o = [x \in names |-> o[x]]
      BY <2>1, <3>1
    <3>3. [o EXCEPT !.executed = e, !.fills = f, !.state = st]
            = [x \in names |-> IF x = "executed" THEN e ELSE IF x = "fills" THEN f
                               ELSE IF x = "state" THEN st ELSE o[x]]
      BY <3>1, <3>2
    <3> QED
      BY <3>3
  <2> QED
    BY <2>2, <2>3
<1>10. Sequence(orders') /\ DOMAIN orders' = DOMAIN orders
  BY <1>1, <1>9, UpdatedSequence
<1>11. IsOrder(orders'[k], decisions)
  <2>1. IsOrder(o, decisions)
    BY <1>1
  <2>2. o.executed + Sign(o.quantity) * n \in Int
    BY <1>2, <1>7
  <2> HIDE DEF o, st
  <2> QED
    BY <1>9, <2>1, <2>2 DEF IsOrder
<1>12. ReduceOnlyReduces
  <2> SUFFICES ASSUME NEW j \in DOMAIN orders, orders'[j].executed # orders[j].executed,
                      orders[j].reduce
               PROVE  /\ Magnitude(xposition') < Magnitude(xposition)
                      /\ xposition' * xposition >= 0
    BY DEF ReduceOnlyReduces
  <2>1. j = k
    BY <1>9
  <2>2. n <= Magnitude(xposition) /\ xposition * o.quantity < 0
    BY <1>5, <1>6, <2>1
  <2> HIDE DEF o, left, limit, st
  <2> QED
    BY <1>1, <1>2, <1>4, <1>6, <2>2, ReducingStep
<1> QED
  BY <1>1, <1>8, <1>9, <1>10, <1>11, <1>12

LEMMA MarketMoves ==
  ASSUME OrdersInv, Market
  PROVE  /\ xposition' \in Int /\ Sequence(orders')
         /\ \A j \in DOMAIN orders' : IsOrder(orders'[j], decisions)
         /\ ReduceOnlyReduces
<1>1. PICK k \in DOMAIN orders : Execute(k) \/ Expire(k) \/ Trigger(k)
  BY DEF Market
<1>2. CASE Execute(k)
  BY <1>2, Executed
<1>3. CASE Expire(k)
  <2>1. Withdrawn({k}) /\ xposition' = xposition
    BY <1>3 DEF Expire
  <2> QED
    BY <2>1, Closed DEF OrdersInv, ReduceOnlyReduces
<1>4. CASE Trigger(k)
  <2> DEFINE o == orders[k]
             base == [orders EXCEPT ![k].state = "done"]
             issued == [id |-> o.id, kind |-> "market", reduce |-> o.reduce,
                        quantity |-> o.quantity, executed |-> 0, fills |-> 0,
                        state |-> "open", decision |-> o.decision]
  <2>1. orders' = Append(base, issued) /\ xposition' = xposition
    BY <1>4 DEF Trigger
  <2>2. /\ Sequence(orders) /\ \A j \in DOMAIN orders : IsOrder(orders[j], decisions)
        /\ xposition \in Int
    BY DEF OrdersInv
  <2>3. base = [j \in DOMAIN orders |-> base[j]]
    OBVIOUS
  <2>4. Sequence(base) /\ DOMAIN base = DOMAIN orders
    <3> HIDE DEF base
    <3> QED
      BY <2>2, <2>3, UpdatedSequence
  <2>5. \A j \in DOMAIN orders : j # k => base[j] = orders[j]
    OBVIOUS
  <2>6. base[k] = [id |-> o.id, kind |-> o.kind, reduce |-> o.reduce, quantity |-> o.quantity,
                   executed |-> o.executed, fills |-> o.fills, state |-> "done",
                   decision |-> o.decision]
    <3>1. base[k] = [o EXCEPT !.state = "done"]
      OBVIOUS
    <3>2. o = [id |-> o.id, kind |-> o.kind, reduce |-> o.reduce, quantity |-> o.quantity,
               executed |-> o.executed, fills |-> o.fills, state |-> o.state,
               decision |-> o.decision]
      BY <2>2 DEF IsOrder
    <3> HIDE DEF o, base
    <3> QED
      BY <3>1, <3>2
  <2>7. IsOrder(base[k], decisions) /\ IsOrder(issued, decisions) /\ base[k].executed = o.executed
    <3>1. IsOrder(o, decisions)
      BY <2>2
    <3>2. o.kind = "stop"
      BY <1>4 DEF Trigger, Conditional
    <3> HIDE DEF base, o
    <3>3. decisions[o.decision].kind = "stop"
      BY <3>1, <3>2 DEF IsOrder
    <3>4. IsOrder(issued, decisions)
      BY <3>1, <3>3 DEF IsOrder
    <3>5. IsOrder(base[k], decisions) /\ base[k].executed = o.executed
      BY <2>6, <3>1 DEF IsOrder
    <3> QED
      BY <3>4, <3>5
  <2> HIDE DEF base, issued, o
  <2>8. /\ Sequence(orders') /\ DOMAIN orders' = DOMAIN orders \cup {Len(base) + 1}
        /\ \A j \in DOMAIN orders : orders'[j] = base[j]
        /\ orders'[Len(base) + 1] = issued
    BY <2>1, <2>4, AppendSequence
  <2>9. \A j \in DOMAIN orders' : IsOrder(orders'[j], decisions)
    BY <2>2, <2>5, <2>7, <2>8
  <2>10. \A j \in DOMAIN orders : orders'[j].executed = orders[j].executed
    BY <2>5, <2>7, <2>8 DEF o
  <2> QED
    BY <2>1, <2>2, <2>8, <2>9, <2>10 DEF ReduceOnlyReduces
<1> QED
  BY <1>1, <1>2, <1>3, <1>4

-----------------------------------------------------------------------------
(* The thread pool. *)

LEMMA OneFinished ==
  ASSUME RequestsInv, NEW i \in DOMAIN requests, Finish(i),
         reported \subseteq reported'
  PROVE  /\ Sequence(requests')
         /\ \A k \in DOMAIN requests' :
              /\ IsRequest(requests'[k], decisions)
              /\ requests'[k].waited \/ requests'[k].decision \in reported'
         /\ \A j \in DOMAIN requests :
              j # i => \E k \in DOMAIN requests' : requests'[k].decision = requests[j].decision
<1>1. /\ Sequence(requests) /\ requests' = RemoveAt(requests, i)
      /\ \A j \in DOMAIN requests : /\ IsRequest(requests[j], decisions)
                                    /\ requests[j].waited \/ requests[j].decision \in reported
  BY DEF RequestsInv, Finish
<1>2. /\ Sequence(requests')
      /\ \A k \in DOMAIN requests' : \E j \in DOMAIN requests : requests'[k] = requests[j]
      /\ \A j \in DOMAIN requests :
           j # i => \E k \in DOMAIN requests' : requests'[k] = requests[j]
  BY <1>1, RemovedSequence
<1>3. ASSUME NEW k \in DOMAIN requests'
      PROVE  /\ IsRequest(requests'[k], decisions)
             /\ requests'[k].waited \/ requests'[k].decision \in reported'
  <2>1. PICK j \in DOMAIN requests : requests'[k] = requests[j]
    BY <1>2
  <2> QED
    BY <1>1, <2>1
<1>4. ASSUME NEW j \in DOMAIN requests, j # i
      PROVE  \E k \in DOMAIN requests' : requests'[k].decision = requests[j].decision
  <2>1. PICK k \in DOMAIN requests' : requests'[k] = requests[j]
    BY <1>2, <1>4
  <2> QED
    BY <2>1
<1> QED
  BY <1>2, <1>3, <1>4

(***************************************************************************)
(* A request of which only tries and waited change is the same request.    *)
(***************************************************************************)
LEMMA OneChanged ==
  ASSUME RequestsInv, NEW i \in DOMAIN requests, reported \subseteq reported',
         NEW tries, NEW waited, waited \/ requests[i].decision \in reported',
         requests' = [requests EXCEPT ![i] = [action |-> @.action, tries |-> tries,
                                              waited |-> waited, decision |-> @.decision]]
  PROVE  /\ Sequence(requests')
         /\ \A k \in DOMAIN requests' :
              /\ IsRequest(requests'[k], decisions)
              /\ requests'[k].waited \/ requests'[k].decision \in reported'
         /\ \A j \in DOMAIN requests :
              \E k \in DOMAIN requests' : requests'[k].decision = requests[j].decision
<1>1. /\ Sequence(requests)
      /\ \A j \in DOMAIN requests : /\ IsRequest(requests[j], decisions)
                                    /\ requests[j].waited \/ requests[j].decision \in reported
  BY DEF RequestsInv
<1>2. /\ requests' = [j \in DOMAIN requests |-> requests'[j]]
      /\ \A j \in DOMAIN requests : j # i => requests'[j] = requests[j]
      /\ requests'[i] = [action |-> requests[i].action, tries |-> tries,
                         waited |-> waited, decision |-> requests[i].decision]
  OBVIOUS
<1>3. Sequence(requests') /\ DOMAIN requests' = DOMAIN requests
  BY <1>1, <1>2, UpdatedSequence
<1>4. /\ IsRequest(requests'[i], decisions)
      /\ requests'[i].waited \/ requests'[i].decision \in reported'
      /\ requests'[i].decision = requests[i].decision
  <2>1. IsRequest(requests[i], decisions)
    BY <1>1
  <2> QED
    BY <1>2, <2>1 DEF IsRequest
<1> QED
  BY <1>1, <1>2, <1>3, <1>4

LEMMA FailKeeps ==
  ASSUME RequestsInv, NEW i \in DOMAIN requests, Fail(i)
  PROVE  /\ Sequence(requests') /\ reported \subseteq reported'
         /\ \A k \in DOMAIN requests' :
              /\ IsRequest(requests'[k], decisions)
              /\ requests'[k].waited \/ requests'[k].decision \in reported'
         /\ \A j \in DOMAIN requests :
              \/ requests[j].decision \in reported'
              \/ \E k \in DOMAIN requests' : requests'[k].decision = requests[j].decision
<1>1. reported \subseteq reported' /\ requests[i].decision \in reported' /\ Finish(i)
  BY DEF Fail, Report, RequestsInv
<1> QED
  BY <1>1, OneFinished

LEMMA FailedTryKeeps ==
  ASSUME RequestsInv, NEW i \in DOMAIN requests, FailedTry(i)
  PROVE  /\ Sequence(requests') /\ reported \subseteq reported'
         /\ \A k \in DOMAIN requests' :
              /\ IsRequest(requests'[k], decisions)
              /\ requests'[k].waited \/ requests'[k].decision \in reported'
         /\ \A j \in DOMAIN requests :
              \/ requests[j].decision \in reported'
              \/ \E k \in DOMAIN requests' : requests'[k].decision = requests[j].decision
<1>1. CASE Fail(i)
  BY <1>1, FailKeeps
<1>2. CASE ~Fail(i)
  <2>1. requests' = [requests EXCEPT ![i].tries = @ + 1] /\ reported' = reported
    BY <1>2 DEF FailedTry
  <2> DEFINE r == requests[i]
             tries == r.tries + 1
  <2>2. /\ r = [action |-> r.action, tries |-> r.tries, waited |-> r.waited,
                decision |-> r.decision]
        /\ r.waited \/ r.decision \in reported
    BY DEF RequestsInv, IsRequest
  <2>3. [r EXCEPT !.tries = tries]
          = [action |-> r.action, tries |-> tries, waited |-> r.waited, decision |-> r.decision]
    <3> HIDE DEF r, tries
    <3> QED
      BY <2>2
  <2>4. requests' = [requests EXCEPT ![i] = [action |-> @.action, tries |-> tries,
                                             waited |-> r.waited, decision |-> @.decision]]
    <3>1. requests' = [requests EXCEPT ![i] = [r EXCEPT !.tries = tries]]
      BY <2>1
    <3> QED
      BY <2>3, <3>1
  <2> QED
    <3> DEFINE waited == r.waited
    <3>1. waited \/ requests[i].decision \in reported'
      BY <2>1, <2>2
    <3>2. requests' = [requests EXCEPT ![i] = [action |-> @.action, tries |-> tries,
                                               waited |-> waited, decision |-> @.decision]]
      BY <2>4
    <3>3. reported \subseteq reported'
      BY <2>1
    <3> HIDE DEF tries, waited, r
    <3>4. /\ Sequence(requests')
          /\ \A k \in DOMAIN requests' :
               /\ IsRequest(requests'[k], decisions)
               /\ requests'[k].waited \/ requests'[k].decision \in reported'
          /\ \A j \in DOMAIN requests :
               \E k \in DOMAIN requests' : requests'[k].decision = requests[j].decision
      BY <3>1, <3>2, <3>3, OneChanged
    <3> QED
      BY <3>3, <3>4
<1> QED
  BY <1>1, <1>2

(***************************************************************************)
(* What a step of the pool has to leave behind.                            *)
(***************************************************************************)
LEMMA PoolKeeps ==
  ASSUME ExecutorInv, life' = life,
         xposition' \in Int, Sequence(orders'),
         \A k \in DOMAIN orders' : IsOrder(orders'[k], decisions),
         DecisionsInv', DecisionsGrow, DOMAIN decisions' = DOMAIN decisions,
         \A n \in DOMAIN decisions : decisions[n].placed > 0 => decisions'[n].placed > 0,
         Sequence(requests'), reported \subseteq reported',
         obeyed \subseteq obeyed',
         \A k \in DOMAIN requests' :
           /\ IsRequest(requests'[k], decisions)
           /\ requests'[k].waited \/ requests'[k].decision \in reported',
         \A j \in DOMAIN requests :
           \/ requests[j].decision \in reported'
           \/ \E k \in DOMAIN requests' : requests'[k].decision = requests[j].decision
           \/ decisions'[requests[j].decision].placed > 0
           \/ requests[j].decision \in obeyed'
  PROVE  ExecutorInv'
<1>1. OrdersInv'
  BY StayRight DEF OrdersInv
<1>2. RequestsInv'
  BY StayRight DEF RequestsInv
<1>3. LifeInv'
  BY DEF ExecutorInv, LifeInv
<1>4. NoSilentFailure'
  <2> SUFFICES ASSUME NEW n \in DOMAIN decisions, n > life.decisions
               PROVE  \/ decisions'[n].placed > 0
                      \/ n \in reported'
                      \/ \E k \in DOMAIN requests' : requests'[k].decision = n
                      \/ n \in obeyed'
    BY DEF NoSilentFailure
  <2>1. \/ decisions[n].placed > 0
        \/ n \in reported
        \/ \E j \in DOMAIN requests : requests[j].decision = n
        \/ n \in obeyed
    BY DEF ExecutorInv, NoSilentFailure
  <2> QED
    BY <2>1
<1> QED
  BY <1>1, <1>2, <1>3, <1>4 DEF ExecutorInv

LEMMA OrderTried ==
  ASSUME ExecutorInv, NEW i \in DOMAIN requests, TryOrder(i), life' = life
  PROVE  /\ ExecutorInv'
         /\ \A k \in DOMAIN orders : orders'[k].executed = orders[k].executed
<1> DEFINE r == requests[i]
<1>0. obeyed' = obeyed
  BY DEF TryOrder
<1>1. OrdersInv /\ DecisionsInv /\ RequestsInv
  BY DEF ExecutorInv
<1>2. r.action.kind # "cancel" /\ IsRequest(r, decisions)
  BY <1>1 DEF TryOrder, RequestsInv
<1>3. /\ r.decision \in DOMAIN decisions
      /\ r.action.quantity \in Int
      /\ decisions[r.decision].closing => r.action.reduce
      /\ r.action.id = decisions[r.decision].id
      /\ r.action.kind = decisions[r.decision].kind
  BY <1>2 DEF IsRequest
<1>4. CASE /\ Place(r.action, r.decision) /\ CountPlaced(r.decision)
           /\ (Finish(i) /\ UNCHANGED reported) \/ FailedTry(i)
  <2>1. /\ DecisionsInv' /\ DecisionsGrow /\ DOMAIN decisions' = DOMAIN decisions
        /\ \A n \in DOMAIN decisions : decisions[n].placed > 0 => decisions'[n].placed > 0
        /\ decisions'[r.decision].placed > 0
    <3> HIDE DEF r
    <3> QED
      BY <1>1, <1>3, <1>4, PlacedCounted
  <2>2. /\ xposition' \in Int /\ Sequence(orders')
        /\ \A k \in DOMAIN orders' : IsOrder(orders'[k], decisions)
        /\ \A k \in DOMAIN orders : orders'[k] = orders[k]
    <3> DEFINE a == r.action
               d == r.decision
    <3>1. /\ Place(a, d) /\ d \in DOMAIN decisions
          /\ a.quantity \in Int /\ (decisions[d].closing => a.reduce)
          /\ a.id = decisions[d].id /\ a.kind = decisions[d].kind /\ a.kind # "cancel"
      BY <1>2, <1>3, <1>4
    <3> HIDE DEF r, a, d
    <3> QED
      BY <1>1, <3>1, Placed
  <2>3. CASE Finish(i) /\ UNCHANGED reported
    <3>1. /\ Sequence(requests') /\ reported \subseteq reported'
          /\ \A k \in DOMAIN requests' :
               /\ IsRequest(requests'[k], decisions)
               /\ requests'[k].waited \/ requests'[k].decision \in reported'
          /\ \A j \in DOMAIN requests :
               j # i => \E k \in DOMAIN requests' : requests'[k].decision = requests[j].decision
      BY <1>1, <2>3, OneFinished
    <3>2. \A j \in DOMAIN requests :
            \/ \E k \in DOMAIN requests' : requests'[k].decision = requests[j].decision
            \/ decisions'[requests[j].decision].placed > 0
      BY <2>1, <3>1
    <3> HIDE DEF r
    <3> QED
      BY <1>0, <2>1, <2>2, <3>1, <3>2, PoolKeeps
  <2>4. CASE FailedTry(i)
    <3>1. /\ Sequence(requests') /\ reported \subseteq reported'
          /\ \A k \in DOMAIN requests' :
               /\ IsRequest(requests'[k], decisions)
               /\ requests'[k].waited \/ requests'[k].decision \in reported'
          /\ \A j \in DOMAIN requests :
               \/ requests[j].decision \in reported'
               \/ \E k \in DOMAIN requests' : requests'[k].decision = requests[j].decision
      BY <1>1, <2>4, FailedTryKeeps
    <3> HIDE DEF r
    <3> QED
      BY <1>0, <2>1, <2>2, <3>1, PoolKeeps
  <2> QED
    BY <1>4, <2>3, <2>4
<1>5. CASE FailedTry(i) /\ UNCHANGED <<exchange, decisions>>
  <2>1. /\ xposition' = xposition /\ orders' = orders /\ decisions' = decisions
    BY <1>5 DEF exchange
  <2>2. /\ DecisionsInv' /\ DecisionsGrow
    BY <1>1, <2>1 DEF DecisionsInv, DecisionsGrow
  <2>3. /\ Sequence(requests') /\ reported \subseteq reported'
        /\ \A k \in DOMAIN requests' :
             /\ IsRequest(requests'[k], decisions)
             /\ requests'[k].waited \/ requests'[k].decision \in reported'
        /\ \A j \in DOMAIN requests :
             \/ requests[j].decision \in reported'
             \/ \E k \in DOMAIN requests' : requests'[k].decision = requests[j].decision
    BY <1>1, <1>5, FailedTryKeeps
  <2>4. /\ xposition' \in Int /\ Sequence(orders')
        /\ \A k \in DOMAIN orders' : IsOrder(orders'[k], decisions)
    BY <1>1, <2>1 DEF OrdersInv
  <2> HIDE DEF r
  <2> QED
    BY <1>0, <2>1, <2>2, <2>3, <2>4, PoolKeeps
<1> QED
  BY <1>4, <1>5 DEF TryOrder

(***************************************************************************)
(* A cancel withdraws orders, and its request leaves the pool.             *)
(***************************************************************************)
LEMMA CancelTried ==
  ASSUME ExecutorInv, NEW i \in DOMAIN requests, TryCancel(i), life' = life
  PROVE  /\ ExecutorInv'
         /\ \A k \in DOMAIN orders : orders'[k].executed = orders[k].executed
<1>1. OrdersInv /\ DecisionsInv /\ RequestsInv
  BY DEF ExecutorInv
<1>2. /\ requests[i].action.kind = "cancel" /\ decisions' = decisions
      /\ IsRequest(requests[i], decisions)
  BY <1>1 DEF TryCancel, RequestsInv
<1>3. obeyed \subseteq obeyed'
  BY DEF TryCancel, CancelOne, CancelAll, CarriedOut
<1>4. /\ (\E numbers : Withdraw(numbers)) \/ UNCHANGED exchange
      /\ (Finish(i) /\ UNCHANGED reported /\ CarriedOut(i)) \/ Fail(i)
  <2>1. CASE CancelOne(i)
    BY <2>1 DEF CancelOne
  <2>2. CASE CancelAll(i)
    BY <2>2 DEF CancelAll
  <2> QED
    BY <2>1, <2>2 DEF TryCancel
<1>5. /\ xposition' \in Int /\ Sequence(orders')
      /\ \A k \in DOMAIN orders' : IsOrder(orders'[k], decisions)
      /\ \A k \in DOMAIN orders : orders'[k].executed = orders[k].executed
  <2>1. CASE UNCHANGED exchange
    BY <1>1, <2>1 DEF exchange, OrdersInv
  <2>2. CASE \E numbers : Withdraw(numbers)
    <3>1. PICK numbers : Withdraw(numbers)
      BY <2>2
    <3>2. Withdrawn(numbers) /\ xposition' = xposition
      BY <3>1 DEF Withdraw
    <3>3. xposition' \in Int
      BY <1>1, <3>2 DEF OrdersInv
    <3> QED
      BY <1>1, <3>2, <3>3, Closed
  <2> QED
    BY <1>4, <2>1, <2>2
<1>6. DecisionsInv' /\ DecisionsGrow
  BY <1>1, <1>2 DEF DecisionsInv, DecisionsGrow
<1>7. CASE Finish(i) /\ UNCHANGED reported /\ CarriedOut(i)
  <2>1. /\ Sequence(requests') /\ reported \subseteq reported'
        /\ \A k \in DOMAIN requests' :
             /\ IsRequest(requests'[k], decisions)
             /\ requests'[k].waited \/ requests'[k].decision \in reported'
        /\ \A j \in DOMAIN requests :
             j # i => \E k \in DOMAIN requests' : requests'[k].decision = requests[j].decision
    BY <1>1, <1>7, OneFinished
  <2>2. \A j \in DOMAIN requests :
          \/ \E k \in DOMAIN requests' : requests'[k].decision = requests[j].decision
          \/ requests[j].decision \in obeyed'
    BY <1>7, <2>1 DEF CarriedOut
  <2> QED
    BY <1>2, <1>3, <1>5, <1>6, <2>1, <2>2, PoolKeeps
<1>8. CASE Fail(i)
  <2>1. /\ Sequence(requests') /\ reported \subseteq reported'
        /\ \A k \in DOMAIN requests' :
             /\ IsRequest(requests'[k], decisions)
             /\ requests'[k].waited \/ requests'[k].decision \in reported'
        /\ \A j \in DOMAIN requests :
             \/ requests[j].decision \in reported'
             \/ \E k \in DOMAIN requests' : requests'[k].decision = requests[j].decision
    BY <1>1, <1>8, FailKeeps
  <2> QED
    BY <1>2, <1>3, <1>5, <1>6, <2>1, PoolKeeps
<1> QED
  BY <1>4, <1>7, <1>8

LEMMA RequestTimesOut ==
  ASSUME ExecutorInv, NEW i \in DOMAIN requests, TimeOut(i)
  PROVE  ExecutorInv' /\ orders' = orders
<1>1. OrdersInv /\ DecisionsInv /\ RequestsInv /\ LifeInv
  BY DEF ExecutorInv
<1>2. /\ xposition' = xposition /\ orders' = orders /\ decisions' = decisions
      /\ requests[i].waited /\ obeyed' = obeyed
      /\ reported' = reported \cup {requests[i].decision}
      /\ life' = [life EXCEPT !.timeouts = @ + 1]
  BY DEF TimeOut, exchange, Report
<1>3. life'.decisions = life.decisions /\ LifeInv'
  <2>1. life' = [restarts |-> life.restarts, drops |-> life.drops,
                 timeouts |-> life.timeouts + 1, orders |-> life.orders,
                 decisions |-> life.decisions]
    BY <1>1, <1>2 DEF LifeInv
  <2> QED
    BY <2>1 DEF LifeInv
<1>4. /\ Sequence(requests')
      /\ \A k \in DOMAIN requests' :
           /\ IsRequest(requests'[k], decisions)
           /\ requests'[k].waited \/ requests'[k].decision \in reported'
      /\ \A j \in DOMAIN requests :
           \/ requests[j].decision \in reported'
           \/ \E k \in DOMAIN requests' : requests'[k].decision = requests[j].decision
  <2>1. CASE i > Workers
    <3>1. Finish(i)
      BY <2>1 DEF TimeOut
    <3> QED
      BY <1>1, <1>2, <3>1, OneFinished
  <2>2. CASE ~(i > Workers)
    <3> DEFINE r == requests[i]
               tries == r.tries
               waited == FALSE
    <3>1. r = [action |-> r.action, tries |-> tries, waited |-> r.waited,
               decision |-> r.decision]
      BY <1>1 DEF RequestsInv, IsRequest
    <3>2. [r EXCEPT !.waited = waited]
            = [action |-> r.action, tries |-> tries, waited |-> waited, decision |-> r.decision]
      <4> HIDE DEF r, tries, waited
      <4> QED
        BY <3>1
    <3>3. requests' = [requests EXCEPT ![i] = [r EXCEPT !.waited = waited]]
      BY <2>2 DEF TimeOut
    <3>4. requests' = [requests EXCEPT ![i] = [action |-> @.action, tries |-> tries,
                                               waited |-> waited, decision |-> @.decision]]
      BY <3>2, <3>3
    <3>5. reported \subseteq reported' /\ (waited \/ requests[i].decision \in reported')
      BY <1>2
    <3> HIDE DEF tries, waited, r
    <3>6. /\ Sequence(requests')
          /\ \A k \in DOMAIN requests' :
               /\ IsRequest(requests'[k], decisions)
               /\ requests'[k].waited \/ requests'[k].decision \in reported'
          /\ \A j \in DOMAIN requests :
               \E k \in DOMAIN requests' : requests'[k].decision = requests[j].decision
      BY <1>1, <3>4, <3>5, OneChanged
    <3> QED
      BY <3>6
  <2> QED
    BY <2>1, <2>2
<1>5. OrdersInv' /\ DecisionsInv'
  BY <1>1, <1>2 DEF OrdersInv, DecisionsInv
<1>6. RequestsInv'
  BY <1>2, <1>4 DEF RequestsInv
<1>7. NoSilentFailure'
  <2> SUFFICES ASSUME NEW n \in DOMAIN decisions, n > life.decisions
               PROVE  \/ decisions[n].placed > 0
                      \/ n \in reported'
                      \/ \E k \in DOMAIN requests' : requests'[k].decision = n
                      \/ n \in obeyed
    BY <1>2, <1>3 DEF NoSilentFailure
  <2> QED
    BY <1>2, <1>4 DEF ExecutorInv, NoSilentFailure
<1> QED
  BY <1>2, <1>3, <1>5, <1>6, <1>7 DEF ExecutorInv

-----------------------------------------------------------------------------
(* The engine. *)

LEMMA Decided ==
  ASSUME ExecutorInv, NEW d, NEW a, Decide(d, a), IsDecision(d),
         a.id = d.id, a.kind = d.kind,
         a.kind # "cancel" => a.quantity \in Int /\ (d.closing => a.reduce)
  PROVE  ExecutorInv' /\ orders' = orders
         /\ \A n \in DOMAIN decisions : decisions'[n] = decisions[n]
<1> DEFINE last == Len(decisions) + 1
           request == [action |-> a, tries |-> 0, waited |-> TRUE, decision |-> last]
<1>1. OrdersInv /\ DecisionsInv /\ RequestsInv /\ LifeInv
  BY DEF ExecutorInv
<1>2. /\ decisions' = Append(decisions, d)
      /\ requests' = Append(requests, [action |-> a, tries |-> 0, waited |-> TRUE,
                                       decision |-> Len(decisions')])
      /\ xposition' = xposition /\ orders' = orders /\ reported' = reported /\ life' = life
      /\ obeyed' = obeyed
  BY DEF Decide, exchange
<1>3. /\ Sequence(decisions')
      /\ Len(decisions) \in Nat /\ DOMAIN decisions = 1..Len(decisions)
      /\ Len(decisions') = last
      /\ DOMAIN decisions' = DOMAIN decisions \cup {last}
      /\ \A n \in DOMAIN decisions : n # last /\ decisions'[n] = decisions[n]
      /\ decisions'[last] = d
  BY <1>1, <1>2, AppendSequence DEF DecisionsInv
<1> HIDE DEF last
<1>4. requests' = Append(requests, request)
  BY <1>2, <1>3
<1> HIDE DEF request
<1>5. /\ Sequence(requests')
      /\ DOMAIN requests' = DOMAIN requests \cup {Len(requests) + 1}
      /\ \A i \in DOMAIN requests : requests'[i] = requests[i]
      /\ requests'[Len(requests) + 1] = request
  BY <1>1, <1>4, AppendSequence DEF RequestsInv
<1>6. DecisionsInv'
  BY <1>1, <1>3 DEF DecisionsInv
<1>7. DecisionsGrow
  BY <1>3 DEF DecisionsGrow
<1>8. OrdersInv'
  BY <1>1, <1>2, <1>7, StayRight DEF OrdersInv
<1>9. IsRequest(request, decisions') /\ request.waited /\ request.decision = last
  BY <1>3 DEF IsRequest, request
<1>10. RequestsInv'
  BY <1>1, <1>2, <1>5, <1>7, <1>9, StayRight DEF RequestsInv
<1>11. LifeInv'
  BY <1>1, <1>2 DEF LifeInv
<1>12. NoSilentFailure'
  <2> SUFFICES ASSUME NEW n \in DOMAIN decisions', n > life.decisions
               PROVE  \/ decisions'[n].placed > 0
                      \/ n \in reported
                      \/ \E i \in DOMAIN requests' : requests'[i].decision = n
                      \/ n \in obeyed
    BY <1>2 DEF NoSilentFailure
  <2>1. CASE n = last
    BY <1>5, <1>9, <2>1
  <2>2. CASE n \in DOMAIN decisions
    <3>1. \/ decisions[n].placed > 0
          \/ n \in reported
          \/ \E i \in DOMAIN requests : requests[i].decision = n
          \/ n \in obeyed
      BY <2>2 DEF ExecutorInv, NoSilentFailure
    <3>2. decisions'[n] = decisions[n]
      BY <1>3, <2>2
    <3> QED
      BY <1>5, <3>1, <3>2
  <2> QED
    BY <1>3, <2>1, <2>2
<1> QED
  BY <1>2, <1>3, <1>6, <1>8, <1>10, <1>11, <1>12 DEF ExecutorInv

LEMMA Submitted ==
  ASSUME ExecutorInv, Submit
  PROVE  ExecutorInv' /\ orders' = orders
<1>1. ASSUME NEW quantity \in Quantities, SubmitMarket(quantity)
      PROVE  ExecutorInv' /\ orders' = orders
  <2> DEFINE d == [kind |-> "market", id |-> NextId, closing |-> PureReduction(quantity),
                   placed |-> 0]
             a == [id |-> NextId, kind |-> "market", quantity |-> quantity,
                   reduce |-> SentReduceOnly(quantity)]
  <2>1. Decide(d, a)
    BY <1>1 DEF SubmitMarket
  <2>2. /\ IsDecision(d) /\ a.id = d.id /\ a.kind = d.kind
        /\ a.kind # "cancel" /\ a.quantity \in Int /\ (d.closing => a.reduce)
    BY ActionAssumption DEF IsDecision, SentReduceOnly
  <2> HIDE DEF d, a
  <2> QED
    BY <2>1, <2>2, Decided
<1>2. ASSUME NEW a \in Resting, SubmitResting(a)
      PROVE  ExecutorInv' /\ orders' = orders
  <2> DEFINE d == [kind |-> a.kind, id |-> a.id, closing |-> FALSE, placed |-> 0]
  <2>1. Decide(d, a)
    BY <1>2 DEF SubmitResting
  <2>2. /\ IsDecision(d) /\ a.id = d.id /\ a.kind = d.kind
        /\ a.kind # "cancel" /\ a.quantity \in Int /\ ~d.closing
    BY ActionAssumption DEF IsDecision
  <2> HIDE DEF d
  <2> QED
    BY <2>1, <2>2, Decided
<1>3. ASSUME NEW id, SubmitCancel(id)
      PROVE  ExecutorInv' /\ orders' = orders
  <2> DEFINE d == [kind |-> "cancel", id |-> id, closing |-> FALSE, placed |-> 0]
  <2>1. PICK hint : Decide(d, [id |-> id, kind |-> "cancel", hint |-> hint])
    BY <1>3 DEF SubmitCancel
  <2> DEFINE a == [id |-> id, kind |-> "cancel", hint |-> hint]
  <2>2. IsDecision(d) /\ a.id = d.id /\ a.kind = "cancel" /\ d.kind = "cancel"
    BY DEF IsDecision
  <2>3. Decide(d, a)
    BY <2>1
  <2> HIDE DEF d, a
  <2> QED
    BY <2>2, <2>3, Decided
<1> QED
  BY <1>1, <1>2, <1>3 DEF Submit

LEMMA Restarted ==
  ASSUME ExecutorInv, Restart
  PROVE  ExecutorInv' /\ orders' = orders
<1>1. OrdersInv /\ DecisionsInv /\ LifeInv
  BY DEF ExecutorInv
<1>2. /\ xposition' = xposition /\ orders' = orders /\ decisions' = decisions
      /\ requests' = <<>>
      /\ life' = [life EXCEPT !.restarts = @ + 1, !.orders = Len(orders),
                              !.decisions = Len(decisions)]
  BY DEF Restart
<1>3. life' = [restarts |-> life.restarts + 1, drops |-> life.drops,
               timeouts |-> life.timeouts, orders |-> Len(orders),
               decisions |-> Len(decisions)]
  BY <1>1, <1>2 DEF LifeInv
<1>4. OrdersInv' /\ DecisionsInv'
  BY <1>1, <1>2 DEF OrdersInv, DecisionsInv
<1>5. RequestsInv'
  BY <1>2, EmptySequence DEF RequestsInv
<1>6. LifeInv'
  BY <1>3 DEF LifeInv
<1>7. NoSilentFailure'
  <2>1. Len(decisions) \in Nat /\ DOMAIN decisions = 1..Len(decisions)
    BY <1>1, AppendSequence DEF DecisionsInv
  <2>2. life'.decisions = Len(decisions)
    BY <1>3
  <2>3. \A n \in DOMAIN decisions : ~(n > Len(decisions))
    BY <2>1
  <2> QED
    BY <1>2, <2>2, <2>3 DEF NoSilentFailure
<1> QED
  BY <1>2, <1>4, <1>5, <1>6, <1>7 DEF ExecutorInv

-----------------------------------------------------------------------------
(* The market acts on orders only. *)

LEMMA MarketKeeps ==
  ASSUME ExecutorInv, Market, UNCHANGED Executor
  PROVE  ExecutorInv' /\ ReduceOnlyReduces
<1>1. /\ xposition' \in Int /\ Sequence(orders')
      /\ \A j \in DOMAIN orders' : IsOrder(orders'[j], decisions)
      /\ ReduceOnlyReduces
  BY MarketMoves DEF ExecutorInv
<1>2. /\ requests' = requests /\ reported' = reported /\ decisions' = decisions
      /\ life' = life /\ obeyed' = obeyed
  BY DEF Executor, history
<1>3. OrdersInv'
  BY <1>1, <1>2 DEF OrdersInv
<1>4. DecisionsInv' /\ RequestsInv' /\ LifeInv'
  BY <1>2 DEF ExecutorInv, DecisionsInv, RequestsInv, LifeInv
<1>5. NoSilentFailure'
  BY <1>2 DEF ExecutorInv, NoSilentFailure
<1> QED
  BY <1>1, <1>3, <1>4, <1>5 DEF ExecutorInv

(***************************************************************************)
(* Steps that neither decide, nor send, nor execute: a message received, a *)
(* candle begun, the stream lost or back.                                  *)
(***************************************************************************)
LEMMA QuietKeeps ==
  ASSUME ExecutorInv, xposition' = xposition, orders' = orders, decisions' = decisions,
         requests' = requests, reported' = reported, obeyed' = obeyed, LifeInv',
         life'.decisions = life.decisions
  PROVE  ExecutorInv'
<1>1. OrdersInv' /\ DecisionsInv' /\ RequestsInv'
  BY DEF ExecutorInv, OrdersInv, DecisionsInv, RequestsInv
<1>2. NoSilentFailure'
  BY DEF ExecutorInv, NoSilentFailure
<1> QED
  BY <1>1, <1>2 DEF ExecutorInv

(***************************************************************************)
(* Every step keeps the invariant, and an order executes only in a step of *)
(* the market.                                                             *)
(***************************************************************************)
NothingExecutes == \A k \in DOMAIN orders : orders'[k].executed = orders[k].executed

LEMMA NextExecutor ==
  ASSUME ExecutorInv, [Next]_vars
  PROVE  /\ ExecutorInv'
         /\ NothingExecutes \/ ReduceOnlyReduces
<1>1. LifeInv
  BY DEF ExecutorInv
<1>2. CASE BeginEvent
  <2>1. /\ xposition' = xposition /\ orders' = orders /\ decisions' = decisions
        /\ requests' = requests /\ reported' = reported /\ life' = life
        /\ obeyed' = obeyed
    BY <1>2 DEF BeginEvent, exchange, history
  <2>2. LifeInv'
    BY <1>1, <2>1 DEF LifeInv
  <2> QED
    BY <2>1, <2>2, QuietKeeps DEF NothingExecutes
<1>3. CASE Submit
  BY <1>3, Submitted DEF NothingExecutes
<1>4. CASE Work
  <2>1. PICK i \in DOMAIN requests : TryOrder(i) \/ TryCancel(i)
    BY <1>4 DEF Work
  <2>2. life' = life
    BY <1>4 DEF Work
  <2>3. CASE TryOrder(i)
    BY <2>2, <2>3, OrderTried DEF NothingExecutes
  <2>4. CASE TryCancel(i)
    BY <2>2, <2>4, CancelTried DEF NothingExecutes
  <2> QED
    BY <2>1, <2>3, <2>4
<1>5. CASE \E i \in DOMAIN requests : TimeOut(i)
  BY <1>5, RequestTimesOut DEF NothingExecutes
<1>6. CASE OnUserData
  <2>1. /\ xposition' = xposition /\ orders' = orders /\ decisions' = decisions
        /\ requests' = requests /\ reported' = reported /\ life' = life
        /\ obeyed' = obeyed
    BY <1>6 DEF OnUserData, history
  <2>2. LifeInv'
    BY <1>1, <2>1 DEF LifeInv
  <2> QED
    BY <2>1, <2>2, QuietKeeps DEF NothingExecutes
<1>7. CASE Restart
  BY <1>7, Restarted DEF NothingExecutes
<1>8. CASE Market /\ UNCHANGED Executor
  BY <1>8, MarketKeeps
<1>9. CASE Connect /\ UNCHANGED Executor
  <2>1. /\ xposition' = xposition /\ orders' = orders /\ decisions' = decisions
        /\ requests' = requests /\ reported' = reported /\ life' = life
        /\ obeyed' = obeyed
    BY <1>9 DEF Connect, Executor, history
  <2>2. LifeInv'
    BY <1>1, <2>1 DEF LifeInv
  <2> QED
    BY <2>1, <2>2, QuietKeeps DEF NothingExecutes
<1>10. CASE /\ MayFail /\ Drop
            /\ life' = [life EXCEPT !.drops = @ + 1]
            /\ UNCHANGED <<account, pairing, seq, requests, reported, decisions, obeyed>>
  <2>1. /\ xposition' = xposition /\ orders' = orders /\ decisions' = decisions
        /\ requests' = requests /\ reported' = reported /\ obeyed' = obeyed
    BY <1>10 DEF Drop
  <2>2. life' = [restarts |-> life.restarts, drops |-> life.drops + 1,
                 timeouts |-> life.timeouts, orders |-> life.orders,
                 decisions |-> life.decisions]
    BY <1>1, <1>10 DEF LifeInv
  <2>3. LifeInv' /\ life'.decisions = life.decisions
    BY <2>2 DEF LifeInv
  <2> QED
    BY <2>1, <2>3, QuietKeeps DEF NothingExecutes
<1>11. CASE UNCHANGED vars
  <2>1. /\ xposition' = xposition /\ orders' = orders /\ decisions' = decisions
        /\ requests' = requests /\ reported' = reported /\ life' = life
        /\ obeyed' = obeyed
    BY <1>11 DEF vars, exchange
  <2>2. LifeInv'
    BY <1>1, <2>1 DEF LifeInv
  <2> QED
    BY <2>1, <2>2, QuietKeeps DEF NothingExecutes
<1> QED
  BY <1>2, <1>3, <1>4, <1>5, <1>6, <1>7, <1>8, <1>9, <1>10, <1>11 DEF Next

-----------------------------------------------------------------------------
(* In every reachable state, every order and every request belongs to a    *)
(* decision, and one that carries out a pure reduction is reduce-only      *)
(* (submit, _execute_order_with_retry).                                    *)
THEOREM ExecutorInvariant == Spec => []ExecutorInv
<1>1. Init => ExecutorInv
  BY InitExecutor
<1>2. ExecutorInv /\ [Next]_vars => ExecutorInv'
  BY NextExecutor
<1> QED
  BY <1>1, <1>2, PTL DEF Spec

(* An action of this process that did nothing is under way or reported to  *)
(* on_error, in every order in which the pool, its retries, the ten second *)
(* wait and restarts can act (_submit_and_report, _wait_and_report).       *)
THEOREM FailuresAreReported == Spec => []NoSilentFailure
<1>1. ExecutorInv => NoSilentFailure
  BY DEF ExecutorInv
<1> QED
  BY <1>1, ExecutorInvariant, PTL

(* A market action decided as a pure reduction never opens, grows or flips *)
(* the real position (submit's reduce-only rule), whatever filled between  *)
(* the decision and the order and however often it was sent.               *)
THEOREM ClosingNeverOpens == Spec => CloseNeverOpens
<1> DEFINE Closes ==
      \A k \in DOMAIN orders :
        /\ orders'[k].executed # orders[k].executed
        /\ decisions[orders[k].decision].closing
        => /\ Magnitude(xposition') < Magnitude(xposition)
           /\ xposition' * xposition >= 0
<1>1. ExecutorInv /\ [Next]_vars => [Closes]_vars
  <2> SUFFICES ASSUME ExecutorInv, [Next]_vars PROVE Closes
    OBVIOUS
  <2>1. \A k \in DOMAIN orders : decisions[orders[k].decision].closing => orders[k].reduce
    BY DEF ExecutorInv, OrdersInv, IsOrder
  <2>2. NothingExecutes \/ ReduceOnlyReduces
    BY NextExecutor
  <2> QED
    BY <2>1, <2>2 DEF NothingExecutes, ReduceOnlyReduces
<1> HIDE DEF Closes
<1>2. Spec => [][Closes]_vars
  BY <1>1, ExecutorInvariant, PTL DEF Spec
<1> QED
  BY <1>2 DEF Closes, CloseNeverOpens

-----------------------------------------------------------------------------
(***************************************************************************)
(* Fills are recorded once.  The invariant follows every message from the  *)
(* exchange to the Trade it ends in: what the messages under way say of    *)
(* the orders, which trades an order has paid for, and, as long as no      *)
(* message was lost, that none of them is missing.                         *)
(***************************************************************************)

Joined(u, s, t) == Sequence(s) /\ Sequence(t) /\ u = s \o t

LEMMA JoinedSequence ==
  ASSUME NEW s, NEW t, NEW u, Joined(u, s, t)
  PROVE  /\ Sequence(u)
         /\ Len(s) \in Nat /\ DOMAIN s = 1..Len(s) /\ DOMAIN t \subseteq Nat \ {0}
         /\ \A i \in DOMAIN s : i \in DOMAIN u /\ u[i] = s[i]
         /\ \A j \in DOMAIN t : Len(s) + j \in DOMAIN u /\ u[Len(s) + j] = t[j]
         /\ \A i \in DOMAIN u : i \in DOMAIN s \/ \E j \in DOMAIN t : i = Len(s) + j
<1> DEFINE T == {s[i] : i \in DOMAIN s} \cup {t[i] : i \in DOMAIN t}
<1>1. (\A i \in DOMAIN s : s[i] \in T) /\ \A i \in DOMAIN t : t[i] \in T
  OBVIOUS
<1> HIDE DEF T
<1>2. /\ s \in Seq(T) /\ Len(s) \in Nat /\ DOMAIN s = 1..Len(s)
      /\ t \in Seq(T) /\ Len(t) \in Nat /\ DOMAIN t = 1..Len(t)
  BY <1>1, SequenceIn DEF Joined
<1>3. /\ u \in Seq(T) /\ Len(u) = Len(s) + Len(t)
      /\ \A i \in 1..(Len(s) + Len(t)) : u[i] = IF i <= Len(s) THEN s[i] ELSE t[i - Len(s)]
  BY <1>2, ConcatProperties DEF Joined
<1> DEFINE n == Len(s)
           o == Len(t)
<1>4. Sequence(u) /\ DOMAIN u = 1..(n + o)
  BY <1>3, SequenceOf
<1>5. /\ n \in Nat /\ o \in Nat /\ DOMAIN s = 1..n /\ DOMAIN t = 1..o
      /\ \A i \in 1..(n + o) : u[i] = IF i <= n THEN s[i] ELSE t[i - n]
  BY <1>2, <1>3
<1> SUFFICES /\ Sequence(u)
             /\ n \in Nat /\ DOMAIN s = 1..n /\ DOMAIN t \subseteq Nat \ {0}
             /\ \A i \in DOMAIN s : i \in DOMAIN u /\ u[i] = s[i]
             /\ \A j \in DOMAIN t : n + j \in DOMAIN u /\ u[n + j] = t[j]
             /\ \A i \in DOMAIN u : i \in DOMAIN s \/ \E j \in DOMAIN t : i = n + j
  OBVIOUS
<1> HIDE DEF n, o
<1>6. ASSUME NEW i \in DOMAIN s PROVE i \in DOMAIN u /\ u[i] = s[i]
  <2>1. i \in 1..(n + o) /\ i <= n
    BY <1>5
  <2> QED
    BY <1>4, <1>5, <2>1
<1>7. ASSUME NEW j \in DOMAIN t PROVE n + j \in DOMAIN u /\ u[n + j] = t[j]
  <2>1. n + j \in 1..(n + o) /\ ~(n + j <= n) /\ (n + j) - n = j
    BY <1>5
  <2> QED
    BY <1>4, <1>5, <2>1
<1>8. ASSUME NEW i \in DOMAIN u PROVE i \in DOMAIN s \/ \E j \in DOMAIN t : i = n + j
  <2>1. CASE i <= n
    BY <1>4, <1>5, <2>1
  <2>2. CASE ~(i <= n)
    <3>1. i - n \in DOMAIN t /\ i = n + (i - n)
      BY <1>4, <1>5, <2>2
    <3> QED
      BY <3>1
  <2> QED
    BY <2>1, <2>2
<1>9. DOMAIN t \subseteq Nat \ {0}
  BY <1>5
<1> QED
  BY <1>4, <1>5, <1>6, <1>7, <1>8, <1>9

LEMMA TailSequence ==
  ASSUME NEW s, Sequence(s), s # <<>>
  PROVE  /\ Sequence(Tail(s))
         /\ 1 \in DOMAIN s /\ Head(s) = s[1] /\ DOMAIN s \subseteq Nat
         /\ \A i \in DOMAIN Tail(s) :
              i + 1 \in DOMAIN s /\ i + 1 > 1 /\ Tail(s)[i] = s[i + 1]
         /\ \A j \in DOMAIN s : j # 1 => j - 1 \in DOMAIN Tail(s) /\ Tail(s)[j - 1] = s[j]
         /\ DOMAIN Tail(s) \subseteq Nat
<1> DEFINE T == {s[i] : i \in DOMAIN s}
           n == Len(s)
           u == Tail(s)
<1>1. \A i \in DOMAIN s : s[i] \in T
  OBVIOUS
<1> HIDE DEF T
<1>2. s \in Seq(T) /\ n \in Nat /\ DOMAIN s = 1..n
  BY <1>1, SequenceIn
<1>3. /\ u \in Seq(T) /\ Len(u) = n - 1 /\ n # 0 /\ Head(s) = s[1]
      /\ \A i \in 1..(n - 1) : u[i] = s[i + 1]
  BY <1>2, HeadTailProperties, EmptySeq
<1>4. Sequence(u) /\ DOMAIN u = 1..(n - 1)
  BY <1>3, SequenceOf
<1> SUFFICES /\ Sequence(u)
             /\ 1 \in DOMAIN s /\ Head(s) = s[1] /\ DOMAIN s \subseteq Nat
             /\ \A i \in DOMAIN u : i + 1 \in DOMAIN s /\ i + 1 > 1 /\ u[i] = s[i + 1]
             /\ \A j \in DOMAIN s : j # 1 => j - 1 \in DOMAIN u /\ u[j - 1] = s[j]
             /\ DOMAIN u \subseteq Nat
  OBVIOUS
<1> HIDE DEF n, u
<1>5. ASSUME NEW i \in DOMAIN u PROVE i + 1 \in DOMAIN s /\ i + 1 > 1 /\ u[i] = s[i + 1]
  BY <1>2, <1>3, <1>4
<1>6. ASSUME NEW j \in DOMAIN s, j # 1 PROVE j - 1 \in DOMAIN u /\ u[j - 1] = s[j]
  <2>1. j - 1 \in 1..(n - 1) /\ (j - 1) + 1 = j
    BY <1>2, <1>6
  <2> QED
    BY <1>3, <1>4, <2>1
<1>7. 1 \in DOMAIN s /\ DOMAIN s \subseteq Nat /\ DOMAIN u \subseteq Nat
  BY <1>2, <1>3, <1>4
<1> QED
  BY <1>3, <1>4, <1>5, <1>6, <1>7

(* What the messages under way say of the orders: the message that ends an *)
(* order is its last one and carries its whole executed quantity.          *)
Tells(m, k) == m.type = "order" /\ m.order = k
Ends(m) == m.state \in Terminal

IsMessage(m, os) ==
  /\ m.type \in {"account", "order"}
  /\ m.type = "order" =>
       /\ m.order \in DOMAIN os
       /\ m.id = os[m.order].id /\ ~Conditional(os[m.order].kind)
       /\ m.traded \in BOOLEAN
       /\ m.state = "PARTIALLY_FILLED" => m.traded
       /\ m.traded => m.state = "PARTIALLY_FILLED" \/ Ends(m)
       /\ Ends(m) => os[m.order].state = "done" /\ m.executed = os[m.order].executed

Closing(k) == \E i \in DOMAIN stream : Tells(stream[i], k) /\ Ends(stream[i])
Quiet(k) == \A i \in DOMAIN stream : ~Tells(stream[i], k)
HasTrade(k) == \E t \in trades : t.order = k

MessagesInv ==
  /\ Sequence(stream)
  /\ \A i \in DOMAIN stream : IsMessage(stream[i], orders)
  /\ \A i, j \in DOMAIN stream : \A k \in DOMAIN orders :
       i < j /\ Tells(stream[i], k) /\ Tells(stream[j], k) => ~Ends(stream[i])

(* An order that executed had a trade; a conditional one has none.         *)
IsFilled(o) ==
  /\ o.fills \in Nat /\ o.state \in {"open", "done"}
  /\ IF o.quantity < 0 THEN o.fills <= -o.executed ELSE o.fills <= o.executed
  /\ Conditional(o.kind) => o.executed = 0

FillsInv ==
  /\ \A k \in DOMAIN orders : IsFilled(orders[k])
  /\ DOMAIN partial \subseteq DOMAIN orders

(* A Trade is final, and its order is finished with.                       *)
TradesInv ==
  /\ \A t \in trades :
       /\ t.order \in DOMAIN orders /\ orders[t.order].state = "done"
       /\ t.quantity = orders[t.order].executed
       /\ Quiet(t.order)
       /\ t.own /\ t.whole => t.paid = orders[t.order].fills
  /\ \A t, u \in trades : t.order = u.order => t = u

(* As long as no message was lost, what an order executed is in its Trade  *)
(* or its last message is under way.                                       *)
KnownInv ==
  ~missed => \A k \in DOMAIN orders :
    k > life.orders /\ orders[k].state = "done" /\ orders[k].executed # 0 =>
      HasTrade(k) \/ Closing(k)

(* The trades an order has paid for are the first ones, and the messages   *)
(* under way are about the others, in turn.                                *)
PaidFor(k) == IF k \in DOMAIN partial THEN partial[k] ELSE 0
Trade(m, k) == Tells(m, k) /\ m.traded

Accounted(k) ==
  /\ PaidFor(k) \in Nat /\ PaidFor(k) <= orders[k].fills
  /\ \A i \in DOMAIN stream :
       Trade(stream[i], k) => stream[i].fills \in (PaidFor(k) + 1)..orders[k].fills
  /\ \A n \in (PaidFor(k) + 1)..orders[k].fills :
       \E i \in DOMAIN stream : Trade(stream[i], k) /\ stream[i].fills = n
  /\ \A i, j \in DOMAIN stream :
       i < j /\ Trade(stream[i], k) /\ Trade(stream[j], k) => stream[i].fills < stream[j].fills

FeesInv ==
  ~missed => \A k \in DOMAIN orders :
    orders[k].decision > life.decisions => HasTrade(k) \/ Accounted(k)

RecordInv == MessagesInv /\ FillsInv /\ TradesInv /\ KnownInv /\ FeesInv

-----------------------------------------------------------------------------
(* A step of the exchange: orders are added, those that were done stay as  *)
(* they are, and the messages say what happened, one for each order.       *)
OrdersGrow ==
  /\ DOMAIN orders \subseteq DOMAIN orders'
  /\ \A k \in DOMAIN orders :
       /\ orders'[k].id = orders[k].id /\ orders'[k].kind = orders[k].kind
       /\ orders'[k].decision = orders[k].decision
       /\ orders[k].state = "done" => orders'[k] = orders[k]
  /\ \A k \in DOMAIN orders' :
       /\ IsFilled(orders'[k])
       /\ k \notin DOMAIN orders => orders'[k].state = "open" /\ orders'[k].fills = 0

Says(extra) ==
  /\ Sequence(extra)
  /\ \A i \in DOMAIN extra :
       /\ IsMessage(extra[i], orders')
       /\ \A k \in DOMAIN orders : Tells(extra[i], k) => orders[k].state = "open"
  /\ \A i, j \in DOMAIN extra : \A k \in DOMAIN orders' :
       Tells(extra[i], k) /\ Tells(extra[j], k) => i = j
  /\ \A k \in DOMAIN orders :
       orders[k].state = "open" /\ orders'[k].state = "done" /\ orders'[k].executed # 0 =>
         \E i \in DOMAIN extra : Tells(extra[i], k) /\ Ends(extra[i])
  /\ \A k \in DOMAIN orders' :
       \/ /\ k \in DOMAIN orders => orders'[k].fills = orders[k].fills
          /\ \A i \in DOMAIN extra : ~Trade(extra[i], k)
       \/ /\ k \in DOMAIN orders /\ orders'[k].fills = orders[k].fills + 1
          /\ \E i \in DOMAIN extra :
               Trade(extra[i], k) /\ extra[i].fills = orders'[k].fills

Said(extra) ==
  \/ stream' = stream \o extra /\ missed' = missed
  \/ stream' = stream /\ missed' = TRUE

LEMMA MessageStays ==
  ASSUME MessagesInv, OrdersGrow, NEW i \in DOMAIN stream
  PROVE  IsMessage(stream[i], orders')
BY DEF MessagesInv, OrdersGrow, IsMessage, Ends

LEMMA SaidMessages ==
  ASSUME MessagesInv, OrdersGrow, NEW extra, Says(extra), Said(extra)
  PROVE  MessagesInv'
<1>1. CASE stream' = stream
  <2>1. \A i \in DOMAIN stream : IsMessage(stream[i], orders')
    BY MessageStays
  <2>2. ASSUME NEW i \in DOMAIN stream, NEW j \in DOMAIN stream, NEW k \in DOMAIN orders',
               i < j, Tells(stream[i], k), Tells(stream[j], k)
        PROVE  ~Ends(stream[i])
    <3>1. k \in DOMAIN orders
      BY <2>2 DEF MessagesInv, IsMessage, Tells
    <3> QED
      BY <2>2, <3>1 DEF MessagesInv
  <2>3. Sequence(stream)
    BY DEF MessagesInv
  <2> QED
    BY <1>1, <2>1, <2>2, <2>3 DEF MessagesInv
<1>2. CASE stream' = stream \o extra
  <2> DEFINE s == stream
             n == Len(s)
             u == stream \o extra
  <2>1. /\ Sequence(u) /\ n \in Nat /\ DOMAIN s = 1..n /\ DOMAIN extra \subseteq Nat \ {0}
        /\ \A i \in DOMAIN s : i \in DOMAIN u /\ u[i] = s[i]
        /\ \A j \in DOMAIN extra : u[n + j] = extra[j]
        /\ \A i \in DOMAIN u : i \in DOMAIN s \/ \E j \in DOMAIN extra : i = n + j
    <3>1. Joined(u, s, extra)
      BY DEF MessagesInv, Says, Joined
    <3> HIDE DEF s, u
    <3> QED
      BY <3>1, JoinedSequence
  <2> HIDE DEF s, n, u
  <2>2. ASSUME NEW i \in DOMAIN u PROVE IsMessage(u[i], orders')
    <3>1. CASE i \in DOMAIN s
      BY <2>1, <3>1, MessageStays DEF s
    <3>2. CASE \E j \in DOMAIN extra : i = n + j
      BY <2>1, <3>2 DEF Says
    <3> QED
      BY <2>1, <3>1, <3>2
  <2>3. ASSUME NEW i \in DOMAIN u, NEW j \in DOMAIN u, NEW k \in DOMAIN orders',
               i < j, Tells(u[i], k), Tells(u[j], k)
        PROVE  ~Ends(u[i])
    <3>1. CASE i \in DOMAIN s /\ j \in DOMAIN s
      <4>1. u[i] = stream[i] /\ u[j] = stream[j] /\ i \in DOMAIN stream /\ j \in DOMAIN stream
        BY <2>1, <3>1 DEF s
      <4>2. k \in DOMAIN orders
        BY <2>3, <4>1 DEF MessagesInv, IsMessage, Tells
      <4> QED
        BY <2>3, <4>1, <4>2 DEF MessagesInv
    <3>2. CASE i \in DOMAIN s /\ \E b \in DOMAIN extra : j = n + b
      <4>1. PICK b \in DOMAIN extra : j = n + b
        BY <3>2
      <4>2. u[i] = stream[i] /\ i \in DOMAIN stream /\ u[j] = extra[b]
        BY <2>1, <3>2, <4>1 DEF s
      <4>3. IsMessage(stream[i], orders)
        BY <4>2 DEF MessagesInv
      <4>4. k \in DOMAIN orders
        BY <2>3, <4>2, <4>3 DEF IsMessage, Tells
      <4>5. orders[k].state = "open"
        BY <2>3, <4>2, <4>4 DEF Says
      <4> QED
        BY <2>3, <4>2, <4>3, <4>5 DEF IsMessage, Tells
    <3>3. CASE (\E a \in DOMAIN extra : i = n + a) /\ j \in DOMAIN s
      BY <2>1, <2>3, <3>3
    <3>4. CASE (\E a \in DOMAIN extra : i = n + a) /\ \E b \in DOMAIN extra : j = n + b
      <4>1. PICK a \in DOMAIN extra, b \in DOMAIN extra : i = n + a /\ j = n + b
        BY <3>4
      <4>2. a # b
        BY <2>1, <2>3, <4>1
      <4>3. Tells(extra[a], k) /\ Tells(extra[b], k)
        BY <2>1, <2>3, <4>1
      <4> QED
        BY <4>2, <4>3 DEF Says
    <3> QED
      BY <2>1, <3>1, <3>2, <3>3, <3>4
  <2> QED
    BY <1>2, <2>1, <2>2, <2>3 DEF MessagesInv, u
<1> QED
  BY <1>1, <1>2 DEF Said

(* What was under way stays under way, and what is new is in extra.        *)
LEMMA SaidStays ==
  ASSUME MessagesInv, NEW extra, Says(extra), Said(extra)
  PROVE  /\ \A i \in DOMAIN stream : i \in DOMAIN stream' /\ stream'[i] = stream[i]
         /\ \A i \in DOMAIN stream' :
              \/ i \in DOMAIN stream /\ stream'[i] = stream[i]
              \/ ~missed' => \E j \in DOMAIN extra : stream'[i] = extra[j]
         /\ ~missed' => \A j \in DOMAIN extra : \E i \in DOMAIN stream' : stream'[i] = extra[j]
         /\ \A i \in DOMAIN stream' :
              \/ i \in DOMAIN stream /\ stream'[i] = stream[i]
              \/ \E j \in DOMAIN extra : stream'[i] = extra[j]
<1>1. CASE stream' = stream /\ missed' = TRUE
  BY <1>1
<1>2. CASE stream' = stream \o extra
  <2> DEFINE s == stream
             u == stream'
  <2>1. Joined(u, s, extra)
    BY <1>2 DEF MessagesInv, Says, Joined
  <2>2. /\ \A i \in DOMAIN s : i \in DOMAIN u /\ u[i] = s[i]
        /\ \A i \in DOMAIN u : \/ i \in DOMAIN s /\ u[i] = s[i]
                               \/ \E j \in DOMAIN extra : u[i] = extra[j]
        /\ \A j \in DOMAIN extra : \E i \in DOMAIN u : u[i] = extra[j]
    <3> HIDE DEF s, u
    <3>1. /\ \A i \in DOMAIN s : i \in DOMAIN u /\ u[i] = s[i]
          /\ \A j \in DOMAIN extra : Len(s) + j \in DOMAIN u /\ u[Len(s) + j] = extra[j]
          /\ \A i \in DOMAIN u : i \in DOMAIN s \/ \E j \in DOMAIN extra : i = Len(s) + j
      BY <2>1, JoinedSequence
    <3> QED
      BY <3>1
  <2> QED
    BY <2>2
<1> QED
  BY <1>1, <1>2 DEF Said

LEMMA SaidTrades ==
  ASSUME MessagesInv, TradesInv, OrdersGrow, NEW extra, Says(extra), Said(extra),
         trades' = trades
  PROVE  TradesInv'
<1>1. ASSUME NEW t \in trades
      PROVE  /\ t.order \in DOMAIN orders' /\ orders'[t.order].state = "done"
             /\ t.quantity = orders'[t.order].executed
             /\ Quiet(t.order)'
             /\ t.own /\ t.whole => t.paid = orders'[t.order].fills
  <2> DEFINE k == t.order
  <2>1. /\ k \in DOMAIN orders /\ orders[k].state = "done"
        /\ t.quantity = orders[k].executed
        /\ Quiet(k)
        /\ t.own /\ t.whole => t.paid = orders[k].fills
    BY DEF TradesInv
  <2>2. k \in DOMAIN orders' /\ orders'[k] = orders[k]
    BY <2>1 DEF OrdersGrow
  <2> HIDE DEF k
  <2>3. ASSUME NEW i \in DOMAIN stream', Tells(stream'[i], k)
        PROVE  FALSE
    <3>1. CASE i \in DOMAIN stream /\ stream'[i] = stream[i]
      BY <2>1, <2>3, <3>1 DEF Quiet
    <3>2. CASE \E j \in DOMAIN extra : stream'[i] = extra[j]
      BY <2>1, <2>3, <3>2 DEF Says
    <3> QED
      BY <3>1, <3>2, SaidStays
  <2> QED
    BY <2>1, <2>2, <2>3 DEF Quiet, k
<1>2. \A t, u \in trades : t.order = u.order => t = u
  BY DEF TradesInv
<1> QED
  BY <1>1, <1>2 DEF TradesInv

LEMMA SaidKnown ==
  ASSUME MessagesInv, FillsInv, KnownInv, OrdersGrow, NEW extra, Says(extra), Said(extra),
         trades' = trades, life' = life
  PROVE  KnownInv'
<1> SUFFICES ASSUME ~missed', NEW k \in DOMAIN orders', k > life.orders,
                    orders'[k].state = "done", orders'[k].executed # 0
             PROVE  HasTrade(k)' \/ Closing(k)'
  BY DEF KnownInv
<1>1. k \in DOMAIN orders /\ ~missed
  BY DEF OrdersGrow, Said
<1>2. CASE orders[k].state = "done"
  <2>1. orders'[k] = orders[k]
    BY <1>1, <1>2 DEF OrdersGrow
  <2>2. HasTrade(k) \/ Closing(k)
    BY <1>1, <1>2, <2>1 DEF KnownInv
  <2>3. Closing(k) => Closing(k)'
    BY SaidStays DEF Closing
  <2> QED
    BY <2>2, <2>3 DEF HasTrade
<1>3. CASE orders[k].state # "done"
  <2>1. orders[k].state = "open"
    BY <1>1, <1>3 DEF FillsInv, IsFilled
  <2>2. PICK j \in DOMAIN extra : Tells(extra[j], k) /\ Ends(extra[j])
    BY <1>1, <2>1 DEF Says
  <2>3. PICK i \in DOMAIN stream' : stream'[i] = extra[j]
    BY SaidStays
  <2> QED
    BY <2>2, <2>3 DEF Closing
<1> QED
  BY <1>2, <1>3

LEMMA SaidFees ==
  ASSUME MessagesInv, FillsInv, FeesInv, OrdersGrow, NEW extra, Says(extra), Said(extra),
         trades' = trades, life' = life, partial' = partial
  PROVE  FeesInv'
<1> SUFFICES ASSUME ~missed', NEW k \in DOMAIN orders', orders'[k].decision > life.decisions,
                    ~HasTrade(k)
             PROVE  Accounted(k)'
  BY DEF FeesInv, HasTrade
<1>1. stream' = stream \o extra /\ ~missed
  BY DEF Said
<1> DEFINE paid == PaidFor(k)
<1>2. PaidFor(k)' = paid
  BY DEF PaidFor
<1> DEFINE s == stream
           n == Len(s)
           u == stream'
           before == IF k \in DOMAIN orders THEN orders[k].fills ELSE 0
           after == orders'[k].fills
<1>3. /\ n \in Nat /\ DOMAIN s = 1..n /\ DOMAIN extra \subseteq Nat \ {0}
      /\ \A i \in DOMAIN s : i \in DOMAIN u /\ u[i] = s[i]
      /\ \A j \in DOMAIN extra : n + j \in DOMAIN u /\ u[n + j] = extra[j]
      /\ \A i \in DOMAIN u : i \in DOMAIN s \/ \E j \in DOMAIN extra : i = n + j
  <2>1. Joined(u, s, extra)
    BY <1>1 DEF MessagesInv, Says, Joined
  <2> HIDE DEF s, u
  <2> QED
    BY <2>1, JoinedSequence
<1>4. /\ paid \in Nat /\ before \in Nat /\ paid <= before
      /\ \A i \in DOMAIN s : Trade(s[i], k) => s[i].fills \in (paid + 1)..before
      /\ \A m \in (paid + 1)..before : \E i \in DOMAIN s : Trade(s[i], k) /\ s[i].fills = m
      /\ \A i, j \in DOMAIN s :
           i < j /\ Trade(s[i], k) /\ Trade(s[j], k) => s[i].fills < s[j].fills
  <2>1. CASE k \in DOMAIN orders
    <3>1. orders[k].decision = orders'[k].decision /\ orders[k].fills \in Nat
      BY <2>1 DEF OrdersGrow, FillsInv, IsFilled
    <3>2. Accounted(k)
      BY <1>1, <2>1, <3>1 DEF FeesInv
    <3> QED
      BY <2>1, <3>1, <3>2 DEF Accounted
  <2>2. CASE k \notin DOMAIN orders
    <3>1. paid = 0 /\ before = 0
      BY <2>2 DEF PaidFor, FillsInv
    <3>2. \A i \in DOMAIN s : ~Trade(s[i], k)
      BY <2>2 DEF Trade, Tells, MessagesInv, IsMessage
    <3> HIDE DEF paid, before, s
    <3> QED
      BY <3>1, <3>2
  <2> QED
    BY <2>1, <2>2
<1>5. \/ /\ after = before
         /\ \A i \in DOMAIN extra : ~Trade(extra[i], k)
      \/ /\ after = before + 1
         /\ \E i \in DOMAIN extra : /\ Trade(extra[i], k) /\ extra[i].fills = after
                                    /\ \A j \in DOMAIN extra : Trade(extra[j], k) => j = i
  BY DEF Says, OrdersGrow, Trade
<1> SUFFICES /\ paid \in Nat /\ paid <= after
             /\ \A i \in DOMAIN u : Trade(u[i], k) => u[i].fills \in (paid + 1)..after
             /\ \A m \in (paid + 1)..after : \E i \in DOMAIN u : Trade(u[i], k) /\ u[i].fills = m
             /\ \A i, j \in DOMAIN u :
                  i < j /\ Trade(u[i], k) /\ Trade(u[j], k) => u[i].fills < u[j].fills
  BY <1>2 DEF Accounted
<1> HIDE DEF paid, n, u, s, before, after
<1>6. CASE /\ after = before
           /\ \A i \in DOMAIN extra : ~Trade(extra[i], k)
  <2>1. \A i \in DOMAIN u : Trade(u[i], k) => i \in DOMAIN s /\ u[i] = s[i]
    BY <1>3, <1>6
  <2> QED
    BY <1>3, <1>4, <1>6, <2>1
<1>7. CASE /\ after = before + 1
           /\ \E i \in DOMAIN extra : /\ Trade(extra[i], k) /\ extra[i].fills = after
                                      /\ \A j \in DOMAIN extra : Trade(extra[j], k) => j = i
  <2>1. PICK e \in DOMAIN extra : /\ Trade(extra[e], k) /\ extra[e].fills = after
                                  /\ \A j \in DOMAIN extra : Trade(extra[j], k) => j = e
    BY <1>7
  <2>2. n + e \in DOMAIN u /\ Trade(u[n + e], k) /\ u[n + e].fills = after
    BY <1>3, <2>1
  <2>3. \A i \in DOMAIN u : Trade(u[i], k) => (i \in DOMAIN s /\ u[i] = s[i]) \/ i = n + e
    BY <1>3, <2>1
  <2>4. \A m \in (paid + 1)..after : \E i \in DOMAIN u : Trade(u[i], k) /\ u[i].fills = m
    <3> SUFFICES ASSUME NEW m \in (paid + 1)..after
                 PROVE  \E i \in DOMAIN u : Trade(u[i], k) /\ u[i].fills = m
      OBVIOUS
    <3>1. m = after \/ m \in (paid + 1)..before
      BY <1>4, <1>7
    <3> QED
      BY <1>3, <1>4, <2>2, <3>1
  <2>5. ASSUME NEW i \in DOMAIN u, NEW j \in DOMAIN u, i < j, Trade(u[i], k), Trade(u[j], k)
        PROVE  u[i].fills < u[j].fills
    <3>1. CASE j = n + e
      <4>1. i \in DOMAIN s /\ u[i] = s[i]
        BY <2>3, <2>5, <3>1, <1>3
      <4>2. u[i].fills \in (paid + 1)..before
        BY <1>4, <2>5, <4>1
      <4> QED
        BY <1>4, <1>7, <2>2, <3>1, <4>2
    <3>2. CASE j \in DOMAIN s /\ u[j] = s[j]
      <4>1. i \in DOMAIN s /\ u[i] = s[i]
        BY <1>3, <2>1, <2>3, <2>5, <3>2
      <4> QED
        BY <1>4, <2>5, <3>2, <4>1
    <3> QED
      BY <2>3, <2>5, <3>1, <3>2
  <2>6. \A i \in DOMAIN u : Trade(u[i], k) => u[i].fills \in (paid + 1)..after
    <3> SUFFICES ASSUME NEW i \in DOMAIN u, Trade(u[i], k)
                 PROVE  u[i].fills \in (paid + 1)..after
      OBVIOUS
    <3>1. u[i].fills \in (paid + 1)..before \/ u[i].fills = after
      BY <1>4, <2>2, <2>3
    <3> QED
      BY <1>4, <1>7, <3>1
  <2> QED
    BY <1>4, <1>7, <2>4, <2>5, <2>6
<1> QED
  BY <1>5, <1>6, <1>7

(***************************************************************************)
(* A step of the exchange keeps what the records say.                      *)
(***************************************************************************)
LEMMA ExchangeKeepsRecords ==
  ASSUME RecordInv, OrdersGrow, NEW extra, Says(extra), Said(extra),
         UNCHANGED <<partial, trades, life>>
  PROVE  RecordInv'
<1>1. FillsInv'
  BY DEF RecordInv, FillsInv, OrdersGrow
<1>2. MessagesInv'
  BY SaidMessages DEF RecordInv
<1>3. TradesInv'
  BY SaidTrades DEF RecordInv
<1>4. KnownInv'
  BY SaidKnown DEF RecordInv
<1>5. FeesInv'
  BY SaidFees DEF RecordInv
<1> QED
  BY <1>1, <1>2, <1>3, <1>4, <1>5 DEF RecordInv

LEMMA FunctionSequence ==
  ASSUME NEW n \in Nat, NEW f, f = [i \in 1..n |-> f[i]]
  PROVE  Sequence(f) /\ DOMAIN f = 1..n
<1> DEFINE T == {f[i] : i \in 1..n}
<1>1. f \in [1..n -> T]
  OBVIOUS
<1> HIDE DEF T
<1>2. f \in Seq(T)
  BY <1>1, SeqDef
<1> QED
  BY <1>2, SequenceOf

LEMMA ShortSequences ==
  ASSUME NEW a, NEW b
  PROVE  /\ Sequence(<<a>>) /\ DOMAIN <<a>> = {1} /\ <<a>>[1] = a
         /\ Sequence(<<a, b>>) /\ DOMAIN <<a, b>> = {1, 2}
         /\ <<a, b>>[1] = a /\ <<a, b>>[2] = b
<1>1. <<a>> \in Seq({a}) /\ <<a, b>> \in Seq({a, b})
  OBVIOUS
<1>2. Sequence(<<a>>) /\ Sequence(<<a, b>>)
  BY <1>1, SequenceOf
<1> QED
  BY <1>2

LEMMA SendSaid ==
  ASSUME NEW extra, NEW algo, Send(extra, algo)
  PROVE  Said(extra)
BY DEF Send, Said

LEMMA NothingSaid ==
  ASSUME OrdersGrow,
         \A k \in DOMAIN orders :
           /\ orders'[k].fills = orders[k].fills
           /\ orders[k].state = "open" /\ orders'[k].state = "done" => orders'[k].executed = 0
  PROVE  Says(<<>>)
BY EmptySequence DEF Says

LEMMA OneSaid ==
  ASSUME OrdersGrow, NEW m, IsMessage(m, orders'), ~m.traded,
         \A k \in DOMAIN orders :
           /\ Tells(m, k) => orders[k].state = "open"
           /\ orders'[k].fills = orders[k].fills
           /\ orders[k].state = "open" /\ orders'[k].state = "done" /\ orders'[k].executed # 0 =>
                Tells(m, k) /\ Ends(m)
  PROVE  Says(<<m>>)
<1> DEFINE extra == <<m>>
<1>1. Sequence(extra) /\ DOMAIN extra = {1} /\ extra[1] = m
  BY ShortSequences
<1> HIDE DEF extra
<1>2. Says(extra)
  BY <1>1 DEF Says, Trade
<1> QED
  BY <1>2 DEF extra

-----------------------------------------------------------------------------
LEMMA PlaceSays ==
  ASSUME OrdersInv, FillsInv, NEW a, NEW d, Place(a, d)
  PROVE  OrdersGrow /\ \E extra : Says(extra) /\ Said(extra)
<1> DEFINE o == [id |-> a.id, kind |-> a.kind, reduce |-> a.reduce, quantity |-> a.quantity,
                 executed |-> 0, fills |-> 0, state |-> "open", decision |-> d]
           last == Len(orders) + 1
<1>1. orders' = Append(orders, o) /\ Sequence(orders)
  BY DEF Place, Enters, OrdersInv
<1>2. IsFilled(o) /\ o.kind = a.kind /\ o.executed = 0 /\ o.state = "open" /\ o.fills = 0
  BY DEF IsFilled
<1> HIDE DEF o
<1>3. /\ Len(orders') = last
      /\ DOMAIN orders' = DOMAIN orders \cup {last}
      /\ \A k \in DOMAIN orders : k # last /\ orders'[k] = orders[k]
      /\ orders'[last] = o
  BY <1>1, AppendSequence
<1> HIDE DEF last
<1>4. OrdersGrow
  BY <1>2, <1>3 DEF OrdersGrow, FillsInv
<1>5. CASE Conditional(a.kind)
  <2>1. Said(<<>>)
    BY <1>5, SendSaid DEF Place
  <2>2. Says(<<>>)
    <3>1. \A k \in DOMAIN orders : orders'[k].state = orders[k].state
      BY <1>3
    <3> QED
      BY <1>3, <1>4, <3>1, NothingSaid
  <2> QED
    BY <1>4, <2>1, <2>2
<1>6. CASE ~Conditional(a.kind)
  <2>1. Said(NewMessage(last))
    BY <1>3, <1>6, SendSaid DEF Place
  <2>2. CASE orders'[last].kind = "market"
    <3>1. NewMessage(last) = <<>>
      BY <2>2 DEF NewMessage
    <3>2. Says(<<>>)
      BY <1>3, <1>4, NothingSaid
    <3> QED
      BY <1>4, <2>1, <3>1, <3>2
  <2>3. CASE orders'[last].kind # "market"
    <3> DEFINE m == OrderUpdate(last, "NEW", FALSE)
    <3>1. NewMessage(last) = <<m>>
      BY <2>3 DEF NewMessage
    <3>2. m.type = "order" /\ m.order = last /\ m.state = "NEW" /\ m.traded = FALSE
          /\ m.id = orders'[last].id
      BY DEF OrderUpdate
    <3> HIDE DEF m
    <3>3. IsMessage(m, orders')
      BY <1>2, <1>3, <1>6, <3>2 DEF IsMessage, Ends, Terminal
    <3>4. \A k \in DOMAIN orders : ~Tells(m, k)
      BY <1>3, <3>2 DEF Tells
    <3>5. \A k \in DOMAIN orders : orders'[k].fills = orders[k].fills /\ orders'[k].state = orders[k].state
      BY <1>3
    <3>6. Says(<<m>>)
      BY <1>4, <3>2, <3>3, <3>4, <3>5, OneSaid
    <3> QED
      BY <1>4, <2>1, <3>1, <3>6
  <2> QED
    BY <2>2, <2>3
<1> QED
  BY <1>5, <1>6

(* Orders withdrawn: they are done, and nothing else changes in them.      *)
LEMMA WithdrawnOrders ==
  ASSUME OrdersInv, FillsInv, NEW numbers, Withdrawn(numbers)
  PROVE  /\ OrdersGrow
         /\ DOMAIN orders' = DOMAIN orders
         /\ \A k \in DOMAIN orders :
              /\ k \notin numbers => orders'[k] = orders[k]
              /\ k \in numbers => orders'[k].state = "done"
              /\ orders'[k].fills = orders[k].fills
              /\ orders'[k].executed = orders[k].executed
              /\ orders'[k].kind = orders[k].kind
              /\ orders'[k].id = orders[k].id
              /\ orders'[k].quantity = orders[k].quantity
              /\ orders'[k].reduce = orders[k].reduce
              /\ orders'[k].decision = orders[k].decision
<1>1. DOMAIN orders' = DOMAIN orders
  BY DEF Withdrawn
<1>2. ASSUME NEW k \in DOMAIN orders
      PROVE  /\ k \notin numbers => orders'[k] = orders[k]
             /\ k \in numbers => orders'[k].state = "done"
             /\ orders'[k].fills = orders[k].fills
             /\ orders'[k].executed = orders[k].executed
             /\ orders'[k].kind = orders[k].kind
             /\ orders'[k].id = orders[k].id
             /\ orders'[k].quantity = orders[k].quantity
             /\ orders'[k].reduce = orders[k].reduce
             /\ orders'[k].decision = orders[k].decision
             /\ orders[k].state = "done" => orders'[k] = orders[k]
             /\ IsFilled(orders'[k])
  <2> DEFINE o == orders[k]
             p == orders'[k]
  <2>1. /\ o = [id |-> o.id, kind |-> o.kind, reduce |-> o.reduce, quantity |-> o.quantity,
                executed |-> o.executed, fills |-> o.fills, state |-> o.state,
                decision |-> o.decision]
        /\ IsFilled(o)
    BY DEF OrdersInv, IsOrder, FillsInv
  <2>2. p = IF k \in numbers THEN [o EXCEPT !.state = "done"] ELSE o
    BY DEF Withdrawn
  <2> HIDE DEF o, p
  <2>3. k \in numbers => p = [id |-> o.id, kind |-> o.kind, reduce |-> o.reduce,
                             quantity |-> o.quantity, executed |-> o.executed,
                             fills |-> o.fills, state |-> "done", decision |-> o.decision]
    BY <2>1, <2>2
  <2>4. /\ k \notin numbers => p = o
        /\ k \in numbers => p.state = "done"
        /\ p.fills = o.fills
        /\ p.executed = o.executed
        /\ p.kind = o.kind
        /\ p.id = o.id
        /\ p.quantity = o.quantity
        /\ p.reduce = o.reduce
        /\ p.decision = o.decision
    BY <2>2, <2>3
  <2>5. o.state = "done" => p = o
    BY <2>1, <2>2, <2>3
  <2>6. IsFilled(p)
    BY <2>1, <2>2, <2>4 DEF IsFilled
  <2> QED
    BY <2>4, <2>5, <2>6 DEF o, p
<1>3. OrdersGrow
  BY <1>1, <1>2 DEF OrdersGrow
<1> QED
  BY <1>1, <1>2, <1>3

LEMMA ExpireSays ==
  ASSUME OrdersInv, FillsInv, NEW k \in DOMAIN orders, Expire(k)
  PROVE  OrdersGrow /\ \E extra : Says(extra) /\ Said(extra)
<1> DEFINE m == OrderUpdate(k, "EXPIRED", FALSE)
<1>1. Withdrawn({k}) /\ Said(<<m>>) /\ orders[k].state = "open"
  BY SendSaid DEF Expire, IsOpen
<1>2. /\ m.type = "order" /\ m.order = k /\ m.state = "EXPIRED" /\ m.traded = FALSE
      /\ m.executed = orders'[k].executed /\ m.id = orders'[k].id
  BY DEF OrderUpdate
<1> HIDE DEF m
<1>3. /\ OrdersGrow
      /\ DOMAIN orders' = DOMAIN orders
      /\ \A j \in DOMAIN orders : /\ j # k => orders'[j] = orders[j]
                                  /\ orders'[j].fills = orders[j].fills
      /\ orders'[k].state = "done" /\ orders'[k].kind = orders[k].kind
  <2> DEFINE numbers == {k}
  <2>1. Withdrawn(numbers) /\ \A j : j \in numbers <=> j = k
    BY <1>1
  <2> HIDE DEF numbers
  <2> QED
    BY <2>1, WithdrawnOrders
<1>4. IsMessage(m, orders') /\ Ends(m)
  <2>1. ~Conditional(orders[k].kind)
    BY DEF Expire
  <2> QED
    BY <1>2, <1>3, <2>1 DEF IsMessage, Ends, Terminal
<1>5. \A j \in DOMAIN orders : Tells(m, j) <=> j = k
  BY <1>2 DEF Tells
<1>6. \A j \in DOMAIN orders :
        /\ Tells(m, j) => orders[j].state = "open"
        /\ orders'[j].fills = orders[j].fills
        /\ orders[j].state = "open" /\ orders'[j].state = "done" /\ orders'[j].executed # 0 =>
             Tells(m, j) /\ Ends(m)
  BY <1>1, <1>3, <1>4, <1>5
<1>7. Says(<<m>>)
  BY <1>2, <1>3, <1>4, <1>6, OneSaid
<1> QED
  BY <1>1, <1>3, <1>7

(* A triggered order is done, and the market order it issues is added.     *)
LEMMA TriggeredOrders ==
  ASSUME OrdersInv, FillsInv, NEW k \in DOMAIN orders, Trigger(k)
  PROVE  /\ OrdersGrow
         /\ Len(orders) + 1 \notin DOMAIN orders
         /\ DOMAIN orders' = DOMAIN orders \cup {Len(orders) + 1}
         /\ \A j \in DOMAIN orders :
              /\ j # k => orders'[j] = orders[j]
              /\ orders'[j].fills = orders[j].fills
              /\ orders'[j].executed = orders[j].executed
              /\ orders'[j].kind = orders[j].kind
              /\ orders'[j].id = orders[j].id
              /\ orders'[j].decision = orders[j].decision
         /\ orders[k].state = "open" /\ orders'[k].state = "done"
         /\ Conditional(orders[k].kind)
         /\ LET issued == orders'[Len(orders) + 1]
            IN /\ issued.id = orders[k].id /\ issued.kind = "market"
               /\ issued.state = "open" /\ issued.decision = orders[k].decision
               /\ issued.executed = 0
<1> DEFINE o == orders[k]
           base == [orders EXCEPT ![k].state = "done"]
           issued == [id |-> o.id, kind |-> "market", reduce |-> o.reduce,
                      quantity |-> o.quantity, executed |-> 0, fills |-> 0,
                      state |-> "open", decision |-> o.decision]
           last == Len(orders) + 1
<1>1. orders' = Append(base, issued) /\ o.state = "open" /\ Conditional(o.kind)
  BY DEF Trigger, IsOpen
<1>2. /\ Sequence(orders) /\ \A j \in DOMAIN orders : IsOrder(orders[j], decisions)
      /\ \A j \in DOMAIN orders : IsFilled(orders[j])
  BY DEF OrdersInv, FillsInv
<1>3. base = [j \in DOMAIN orders |-> base[j]]
  OBVIOUS
<1>4. Sequence(base) /\ DOMAIN base = DOMAIN orders /\ Len(base) = Len(orders)
  <2> HIDE DEF base
  <2> QED
    BY <1>2, <1>3, UpdatedSequence
<1>5. \A j \in DOMAIN orders : j # k => base[j] = orders[j]
  OBVIOUS
<1>6. base[k] = [id |-> o.id, kind |-> o.kind, reduce |-> o.reduce, quantity |-> o.quantity,
                 executed |-> o.executed, fills |-> o.fills, state |-> "done",
                 decision |-> o.decision]
  <2>1. base[k] = [o EXCEPT !.state = "done"]
    OBVIOUS
  <2>2. o = [id |-> o.id, kind |-> o.kind, reduce |-> o.reduce, quantity |-> o.quantity,
             executed |-> o.executed, fills |-> o.fills, state |-> o.state,
             decision |-> o.decision]
    BY <1>2 DEF IsOrder
  <2> HIDE DEF o, base
  <2> QED
    BY <2>1, <2>2
<1>7. IsFilled(base[k])
  <2>1. IsFilled(o)
    BY <1>2
  <2> HIDE DEF o, base
  <2> QED
    BY <1>6, <2>1 DEF IsFilled
<1>8. /\ issued.id = o.id /\ issued.kind = "market" /\ issued.state = "open"
      /\ issued.decision = o.decision /\ issued.executed = 0 /\ issued.fills = 0
      /\ IsFilled(issued)
  BY DEF IsFilled, Conditional
<1> HIDE DEF base, issued
<1>9. /\ last \notin DOMAIN orders
      /\ DOMAIN orders' = DOMAIN orders \cup {last}
      /\ \A j \in DOMAIN orders : orders'[j] = base[j]
      /\ orders'[last] = issued
  BY <1>1, <1>4, AppendSequence
<1> HIDE DEF last
<1>10. /\ orders'[k].state = "done" /\ orders'[k].fills = o.fills
       /\ orders'[k].executed = o.executed /\ orders'[k].kind = o.kind
       /\ orders'[k].id = o.id /\ orders'[k].decision = o.decision
  <2>1. orders'[k] = base[k]
    BY <1>9
  <2> HIDE DEF o
  <2> QED
    BY <2>1, <1>6
<1>11. \A j \in DOMAIN orders : j # k => orders'[j] = orders[j]
  BY <1>5, <1>9
<1>12. OrdersGrow
  <2>1. \A j \in DOMAIN orders' : IsFilled(orders'[j])
    BY <1>2, <1>7, <1>8, <1>9, <1>11
  <2>2. \A j \in DOMAIN orders :
          /\ orders'[j].id = orders[j].id /\ orders'[j].kind = orders[j].kind
          /\ orders'[j].decision = orders[j].decision
          /\ orders[j].state = "done" => orders'[j] = orders[j]
    BY <1>1, <1>10, <1>11
  <2> QED
    BY <1>8, <1>9, <2>1, <2>2 DEF OrdersGrow
<1>13. \A j \in DOMAIN orders :
         /\ orders'[j].fills = orders[j].fills
         /\ orders'[j].executed = orders[j].executed
         /\ orders'[j].kind = orders[j].kind
         /\ orders'[j].id = orders[j].id
         /\ orders'[j].decision = orders[j].decision
  BY <1>10, <1>11
<1> QED
  BY <1>1, <1>8, <1>9, <1>10, <1>11, <1>12, <1>13 DEF last

LEMMA TriggerSays ==
  ASSUME OrdersInv, FillsInv, NEW k \in DOMAIN orders, Trigger(k)
  PROVE  OrdersGrow /\ \E extra : Says(extra) /\ Said(extra)
<1>1. /\ OrdersGrow
      /\ \A j \in DOMAIN orders :
           /\ j # k => orders'[j] = orders[j]
           /\ orders'[j].fills = orders[j].fills
           /\ orders'[j].executed = orders[j].executed
      /\ Conditional(orders[k].kind)
  BY TriggeredOrders
<1>2. orders[k].executed = 0
  BY <1>1 DEF FillsInv, IsFilled
<1>3. \A j \in DOMAIN orders :
        /\ orders'[j].fills = orders[j].fills
        /\ orders[j].state = "open" /\ orders'[j].state = "done" => orders'[j].executed = 0
  BY <1>1, <1>2
<1>4. Says(<<>>)
  BY <1>1, <1>3, NothingSaid
<1>5. Said(<<>>)
  BY SendSaid DEF Trigger
<1> QED
  BY <1>1, <1>4, <1>5

-----------------------------------------------------------------------------
(* One trade of one order.                                                 *)
LEMMA ExecutedOrder ==
  ASSUME OrdersInv, FillsInv, NEW k \in DOMAIN orders, Execute(k)
  PROVE  /\ DOMAIN orders' = DOMAIN orders
         /\ \A j \in DOMAIN orders : j # k => orders'[j] = orders[j]
         /\ orders[k].state = "open" /\ ~Conditional(orders[k].kind)
         /\ orders'[k].id = orders[k].id /\ orders'[k].kind = orders[k].kind
         /\ orders'[k].decision = orders[k].decision
         /\ orders'[k].fills = orders[k].fills + 1
         /\ orders'[k].state \in {"open", "done"}
         /\ IsFilled(orders'[k])
         /\ LET said == OrderUpdate(k, IF orders'[k].state = "done" THEN "FILLED"
                                       ELSE "PARTIALLY_FILLED", TRUE)
            IN Said(<<AccountUpdate, said>>) /\ Send(<<AccountUpdate, said>>, <<>>)
<1> DEFINE o == orders[k]
           left == Magnitude(o.quantity - o.executed)
           limit == IF o.reduce /\ Magnitude(xposition) < left THEN Magnitude(xposition) ELSE left
<1>1. IsOrder(o, decisions) /\ IsFilled(o) /\ xposition \in Int
  BY DEF OrdersInv, FillsInv
<1>2. left \in Int /\ Magnitude(xposition) \in Int
  BY <1>1 DEF Magnitude, IsOrder
<1>3. PICK n \in 1..limit :
        /\ orders' = [orders EXCEPT
             ![k].executed = @ + Sign(o.quantity) * n,
             ![k].fills = @ + 1,
             ![k].state = IF n = left THEN "done" ELSE "open"]
        /\ Send(<<AccountUpdate,
                  OrderUpdate(k, IF n = left THEN "FILLED" ELSE "PARTIALLY_FILLED", TRUE)>>, <<>>)
  BY DEF Execute
<1>4. n \in Int /\ 1 <= n
  <2> HIDE DEF left
  <2> QED
    BY <1>2, <1>3
<1>5. o.state = "open" /\ ~Conditional(o.kind)
  BY DEF Execute, IsOpen
<1> DEFINE st == IF n = left THEN "done" ELSE "open"
           e == o.executed + Sign(o.quantity) * n
           f == o.fills + 1
           p == orders'[k]
<1>6. /\ DOMAIN orders' = DOMAIN orders
      /\ \A j \in DOMAIN orders : j # k => orders'[j] = orders[j]
      /\ p = [o EXCEPT !.executed = e, !.fills = f, !.state = st]
  <2> HIDE DEF left, limit
  <2> QED
    BY <1>3
<1>7. /\ p.id = o.id /\ p.kind = o.kind /\ p.quantity = o.quantity /\ p.decision = o.decision
      /\ p.executed = e /\ p.fills = f /\ p.state = st
  <2>1. o = [id |-> o.id, kind |-> o.kind, reduce |-> o.reduce, quantity |-> o.quantity,
             executed |-> o.executed, fills |-> o.fills, state |-> o.state,
             decision |-> o.decision]
    BY <1>1 DEF IsOrder
  <2> HIDE DEF o, st, left, limit, e, f, p
  <2> DEFINE names == {"id", "kind", "reduce", "quantity", "executed", "fills", "state", "decision"}
  <2>2. DOMAIN o = names
    BY <2>1
  <2>3. o = [x \in names |-> o[x]]
    BY <2>1, <2>2
  <2>4. p = [x \in names |-> IF x = "executed" THEN e ELSE IF x = "fills" THEN f
                             ELSE IF x = "state" THEN st ELSE o[x]]
    BY <1>6, <2>2, <2>3
  <2> QED
    BY <2>4
<1>8. st \in {"open", "done"} /\ (n = left <=> st = "done")
  OBVIOUS
<1>9. IsFilled(p)
  <2>1. o.fills \in Nat /\ o.executed \in Int /\ o.quantity \in Int
    BY <1>1 DEF IsOrder, IsFilled
  <2>2. IF o.quantity < 0 THEN o.fills <= -o.executed ELSE o.fills <= o.executed
    BY <1>1 DEF IsFilled
  <2>3. IF o.quantity < 0 THEN e = o.executed - n ELSE e = o.executed + n
    <3> HIDE DEF o, left, limit
    <3> QED
      BY <1>4, <2>1 DEF Sign
  <2>4. IF p.quantity < 0 THEN p.fills <= -p.executed ELSE p.fills <= p.executed
    <3>1. f = o.fills + 1
      OBVIOUS
    <3> HIDE DEF o, left, limit, e, f, p
    <3> QED
      BY <1>4, <1>7, <2>1, <2>2, <2>3, <3>1
  <2>5. p.fills \in Nat
    BY <1>7, <2>1
  <2> HIDE DEF o, left, limit, e, f, p, st
  <2> QED
    BY <1>5, <1>7, <1>8, <2>4, <2>5 DEF IsFilled
<1>10. LET said == OrderUpdate(k, IF p.state = "done" THEN "FILLED" ELSE "PARTIALLY_FILLED", TRUE)
       IN Send(<<AccountUpdate, said>>, <<>>)
  <2>1. (IF n = left THEN "FILLED" ELSE "PARTIALLY_FILLED")
          = (IF p.state = "done" THEN "FILLED" ELSE "PARTIALLY_FILLED")
    BY <1>7, <1>8
  <2> HIDE DEF o, left, limit, e, f, p, st
  <2> QED
    BY <1>3, <2>1
<1>11. p.state \in {"open", "done"} /\ p.fills = o.fills + 1
  BY <1>7, <1>8
<1> QED
  BY <1>5, <1>6, <1>7, <1>9, <1>10, <1>11, SendSaid

LEMMA ExecuteSays ==
  ASSUME OrdersInv, FillsInv, NEW k \in DOMAIN orders, Execute(k)
  PROVE  OrdersGrow /\ \E extra : Says(extra) /\ Said(extra)
<1> DEFINE st == orders'[k].state
           a == AccountUpdate
           m == OrderUpdate(k, IF st = "done" THEN "FILLED" ELSE "PARTIALLY_FILLED", TRUE)
           extra == <<a, m>>
<1>1. /\ DOMAIN orders' = DOMAIN orders
      /\ \A j \in DOMAIN orders : j # k => orders'[j] = orders[j]
      /\ orders[k].state = "open" /\ ~Conditional(orders[k].kind)
      /\ orders'[k].id = orders[k].id /\ orders'[k].kind = orders[k].kind
      /\ orders'[k].decision = orders[k].decision
      /\ orders'[k].fills = orders[k].fills + 1
      /\ st \in {"open", "done"} /\ IsFilled(orders'[k])
      /\ Said(extra)
  BY ExecutedOrder
<1>2. OrdersGrow
  BY <1>1 DEF OrdersGrow, FillsInv
<1>3. /\ m.type = "order" /\ m.order = k /\ m.traded = TRUE
      /\ m.state = IF st = "done" THEN "FILLED" ELSE "PARTIALLY_FILLED"
      /\ m.executed = orders'[k].executed /\ m.fills = orders'[k].fills
      /\ m.id = orders'[k].id
  BY DEF OrderUpdate
<1>4. a.type = "account"
  BY DEF AccountUpdate
<1> HIDE DEF a, m
<1>5. Sequence(extra) /\ DOMAIN extra = {1, 2} /\ extra[1] = a /\ extra[2] = m
  BY ShortSequences
<1> HIDE DEF extra
<1>6. IsMessage(a, orders') /\ \A j : ~Tells(a, j)
  BY <1>4 DEF IsMessage, Tells
<1>7. IsMessage(m, orders') /\ (st = "done" => Ends(m)) /\ \A j : Tells(m, j) <=> j = k
  BY <1>1, <1>3 DEF IsMessage, Tells, Ends, Terminal
<1>8. ~Trade(a, k) /\ Trade(m, k) /\ \A j : j # k => ~Trade(a, j) /\ ~Trade(m, j)
  BY <1>3, <1>6, <1>7 DEF Trade
<1>9. Says(extra)
  <2>1. \A i \in DOMAIN extra : /\ IsMessage(extra[i], orders')
                                /\ \A j : Tells(extra[i], j) => j = k /\ i = 2
    BY <1>5, <1>6, <1>7
  <2>2. \A j \in DOMAIN orders :
          orders[j].state = "open" /\ orders'[j].state = "done" =>
            Tells(extra[2], j) /\ Ends(extra[2])
    BY <1>1, <1>5, <1>7
  <2>3. Trade(extra[2], k) /\ extra[2].fills = orders'[k].fills
    BY <1>3, <1>5, <1>8
  <2>4. \A j \in DOMAIN orders' : j # k =>
          orders'[j].fills = orders[j].fills /\ \A i \in DOMAIN extra : ~Trade(extra[i], j)
    BY <1>1, <1>5, <1>8
  <2> QED
    BY <1>1, <1>5, <2>1, <2>2, <2>3, <2>4 DEF Says
<1> QED
  BY <1>1, <1>2, <1>9

LEMMA MarketSays ==
  ASSUME OrdersInv, FillsInv, Market
  PROVE  OrdersGrow /\ \E extra : Says(extra) /\ Said(extra)
BY ExecuteSays, ExpireSays, TriggerSays DEF Market

(* The orders that a cancel withdraws are listed once each.                *)
LEMMA Listing ==
  ASSUME Sequence(orders), NEW S, S \subseteq DOMAIN orders,
         NEW f \in Bijection(1..Cardinality(S), S)
  PROVE  /\ Cardinality(S) \in Nat /\ DOMAIN f = 1..Cardinality(S)
         /\ \A i \in DOMAIN f : f[i] \in S
         /\ \A i, j \in DOMAIN f : f[i] = f[j] => i = j
         /\ \A k \in S : \E i \in DOMAIN f : f[i] = k
<1>1. Len(orders) \in Nat /\ DOMAIN orders = 1..Len(orders)
  BY AppendSequence
<1>2. IsFiniteSet(S)
  <2>1. 1 \in Int /\ Len(orders) \in Int
    BY <1>1
  <2>2. IsFiniteSet(1..Len(orders))
    BY <2>1, FS_Interval
  <2> QED
    BY <1>1, <2>2, FS_Subset
<1>3. Cardinality(S) \in Nat
  BY <1>2, FS_CardinalityType
<1> QED
  BY <1>3 DEF Bijection, Injection, Surjection, IsInjective

LEMMA WithdrawSays ==
  ASSUME OrdersInv, FillsInv, NEW numbers \in SUBSET {k \in DOMAIN orders : IsOpen(k)},
         Withdraw(numbers)
  PROVE  OrdersGrow /\ \E extra : Says(extra) /\ Said(extra)
<1> DEFINE S == {k \in numbers : Conditional(orders[k].kind) = FALSE}
<1>1. PICK regular \in Bijection(1..Cardinality(S), S) : \E algo :
        Send([i \in DOMAIN regular |-> OrderUpdate(regular[i], "CANCELED", FALSE)],
             [i \in DOMAIN algo |-> AlgoUpdate(orders[algo[i]].id, "CANCELED")])
  BY DEF Withdraw
<1> DEFINE n == Cardinality(S)
           extra == [i \in DOMAIN regular |-> OrderUpdate(regular[i], "CANCELED", FALSE)]
<1>2. /\ \A k \in S : k \in DOMAIN orders /\ k \in numbers
      /\ \A k \in numbers : k \in S <=> ~Conditional(orders[k].kind)
      /\ \A k \in numbers : k \in DOMAIN orders /\ orders[k].state = "open"
  BY DEF IsOpen, Conditional
<1>3. /\ n \in Nat /\ DOMAIN regular = 1..n
      /\ \A i \in DOMAIN regular : regular[i] \in S
      /\ \A i, j \in DOMAIN regular : regular[i] = regular[j] => i = j
      /\ \A k \in S : \E i \in DOMAIN regular : regular[i] = k
  <2>1. S \subseteq DOMAIN orders /\ Sequence(orders)
    BY DEF OrdersInv
  <2> HIDE DEF S
  <2> QED
    BY <2>1, Listing
<1>4. Said(extra)
  <2>1. \E said : Send(extra, said)
    BY <1>1
  <2> HIDE DEF extra
  <2> QED
    BY <2>1, SendSaid
<1>5. /\ OrdersGrow /\ DOMAIN orders' = DOMAIN orders
      /\ \A k \in DOMAIN orders :
           /\ k \notin numbers => orders'[k] = orders[k]
           /\ k \in numbers => orders'[k].state = "done"
           /\ orders'[k].fills = orders[k].fills
           /\ orders'[k].executed = orders[k].executed
           /\ orders'[k].kind = orders[k].kind
  <2>1. Withdrawn(numbers)
    BY DEF Withdraw
  <2> QED
    BY <2>1, WithdrawnOrders
<1> HIDE DEF S, n
<1>6. /\ DOMAIN extra = DOMAIN regular
      /\ \A i \in DOMAIN regular :
           LET m == extra[i]
           IN /\ m.type = "order" /\ m.order = regular[i] /\ m.state = "CANCELED"
              /\ m.traded = FALSE /\ m.executed = orders'[regular[i]].executed
              /\ m.id = orders'[regular[i]].id
  BY DEF OrderUpdate
<1>7. Sequence(extra)
  <2>1. extra = [i \in 1..n |-> extra[i]]
    BY <1>3
  <2> HIDE DEF extra
  <2> QED
    BY <1>3, <2>1, FunctionSequence
<1> HIDE DEF extra
<1>8. \A i \in DOMAIN extra :
        /\ IsMessage(extra[i], orders') /\ Ends(extra[i]) /\ ~extra[i].traded
        /\ \A k : Tells(extra[i], k) <=> k = regular[i]
  <2> SUFFICES ASSUME NEW i \in DOMAIN extra
               PROVE  /\ IsMessage(extra[i], orders') /\ Ends(extra[i]) /\ ~extra[i].traded
                      /\ \A k : Tells(extra[i], k) <=> k = regular[i]
    OBVIOUS
  <2>1. /\ regular[i] \in DOMAIN orders /\ orders'[regular[i]].state = "done"
        /\ ~Conditional(orders'[regular[i]].kind)
    BY <1>2, <1>3, <1>5, <1>6
  <2>2. LET m == extra[i]
        IN /\ m.type = "order" /\ m.order = regular[i] /\ m.state = "CANCELED"
           /\ m.traded = FALSE /\ m.executed = orders'[regular[i]].executed
           /\ m.id = orders'[regular[i]].id
    BY <1>6
  <2> QED
    BY <1>5, <2>1, <2>2 DEF IsMessage, Ends, Terminal, Tells
<1>9. Says(extra)
  <2>1. \A k \in DOMAIN orders :
          orders[k].state = "open" /\ orders'[k].state = "done" /\ orders'[k].executed # 0 =>
            \E i \in DOMAIN extra : Tells(extra[i], k) /\ Ends(extra[i])
    <3> SUFFICES ASSUME NEW k \in DOMAIN orders, orders[k].state = "open",
                        orders'[k].state = "done", orders'[k].executed # 0
                 PROVE  \E i \in DOMAIN extra : Tells(extra[i], k) /\ Ends(extra[i])
      OBVIOUS
    <3>1. k \in numbers /\ ~Conditional(orders[k].kind)
      BY <1>5 DEF FillsInv, IsFilled
    <3>2. PICK i \in DOMAIN regular : regular[i] = k
      BY <1>2, <1>3, <3>1
    <3> QED
      BY <1>6, <1>8, <3>2
  <2>2. \A i \in DOMAIN extra : \A k \in DOMAIN orders :
          Tells(extra[i], k) => orders[k].state = "open"
    BY <1>2, <1>3, <1>6, <1>8
  <2>3. \A i, j \in DOMAIN extra : \A k \in DOMAIN orders' :
          Tells(extra[i], k) /\ Tells(extra[j], k) => i = j
    BY <1>3, <1>6, <1>8
  <2> QED
    BY <1>5, <1>7, <1>8, <2>1, <2>2, <2>3 DEF Says, Trade
<1> QED
  BY <1>4, <1>5, <1>9

-----------------------------------------------------------------------------
LEMMA RecordsUntouched ==
  ASSUME RecordInv, UNCHANGED <<orders, stream, partial, trades>>, ~missed' => ~missed,
         life'.orders = life.orders, life'.decisions = life.decisions
  PROVE  RecordInv'
<1>1. MessagesInv'
  BY DEF RecordInv, MessagesInv
<1>2. FillsInv'
  BY DEF RecordInv, FillsInv
<1>3. TradesInv'
  BY DEF RecordInv, TradesInv, Quiet
<1>4. KnownInv'
  BY DEF RecordInv, KnownInv, HasTrade, Closing
<1>5. FeesInv'
  <2>1. \A k \in DOMAIN orders : Accounted(k) => Accounted(k)'
    BY DEF Accounted, PaidFor
  <2> QED
    BY <2>1 DEF RecordInv, FeesInv, HasTrade
<1> QED
  BY <1>1, <1>2, <1>3, <1>4, <1>5 DEF RecordInv

(* Everything under way is lost: nothing is known to be complete unless    *)
(* nothing was under way.                                                  *)
LEMMA RecordsDropped ==
  ASSUME RecordInv, Drop, UNCHANGED <<partial, trades>>,
         life'.orders = life.orders, life'.decisions = life.decisions
  PROVE  RecordInv'
<1>1. /\ stream' = <<>> /\ orders' = orders
      /\ missed' = (missed \/ stream # <<>> \/ algoStream # <<>>)
  BY DEF Drop
<1>2. CASE stream = <<>> /\ ~missed'
  BY <1>1, <1>2, RecordsUntouched
<1>3. CASE missed'
  <2>1. MessagesInv'
    BY <1>1, EmptySequence DEF MessagesInv
  <2>2. FillsInv'
    BY <1>1 DEF RecordInv, FillsInv
  <2>3. TradesInv'
    BY <1>1, EmptySequence DEF RecordInv, TradesInv, Quiet
  <2> QED
    BY <1>3, <2>1, <2>2, <2>3 DEF RecordInv, KnownInv, FeesInv
<1>4. stream # <<>> => missed'
  BY <1>1
<1> QED
  BY <1>2, <1>3, <1>4

LEMMA RecordsRestarted ==
  ASSUME ExecutorInv, RecordInv, Restart
  PROVE  RecordInv'
<1>1. /\ stream' = <<>> /\ orders' = orders /\ trades' = {} /\ partial' = <<>>
      /\ life' = [life EXCEPT !.restarts = @ + 1, !.orders = Len(orders),
                              !.decisions = Len(decisions)]
  BY DEF Restart
<1>2. life'.orders = Len(orders) /\ life'.decisions = Len(decisions)
  <2>1. life = [restarts |-> life.restarts, drops |-> life.drops, timeouts |-> life.timeouts,
                orders |-> life.orders, decisions |-> life.decisions]
    BY DEF ExecutorInv, LifeInv
  <2>2. life' = [restarts |-> life.restarts + 1, drops |-> life.drops,
                 timeouts |-> life.timeouts, orders |-> Len(orders),
                 decisions |-> Len(decisions)]
    BY <1>1, <2>1
  <2> QED
    BY <2>2
<1>3. /\ DOMAIN orders = 1..Len(orders) /\ Len(orders) \in Nat
      /\ DOMAIN decisions = 1..Len(decisions) /\ Len(decisions) \in Nat
  BY AppendSequence DEF ExecutorInv, OrdersInv, DecisionsInv
<1>4. MessagesInv'
  BY <1>1, EmptySequence DEF MessagesInv
<1>5. FillsInv'
  BY <1>1, EmptySequence DEF RecordInv, FillsInv
<1>6. TradesInv'
  BY <1>1 DEF TradesInv
<1>7. KnownInv'
  BY <1>1, <1>2, <1>3 DEF KnownInv
<1>8. FeesInv'
  <2>1. \A k \in DOMAIN orders : orders[k].decision \in 1..Len(decisions)
    BY <1>3 DEF ExecutorInv, OrdersInv, IsOrder
  <2>2. \A k \in DOMAIN orders : ~(orders[k].decision > Len(decisions))
    BY <1>3, <2>1
  <2> QED
    BY <1>1, <1>2, <2>2 DEF FeesInv
<1> QED
  BY <1>4, <1>5, <1>6, <1>7, <1>8 DEF RecordInv

LEMMA InitRecords == Init => RecordInv
<1> SUFFICES ASSUME Init PROVE RecordInv
  OBVIOUS
<1>1. orders = <<>> /\ stream = <<>> /\ trades = {} /\ partial = <<>>
  BY DEF Init, ExchangeInit
<1> QED
  BY <1>1, EmptySequence DEF RecordInv, MessagesInv, FillsInv, TradesInv, KnownInv, FeesInv

-----------------------------------------------------------------------------
(* A message is received.                                                  *)
Received == stream # <<>> /\ stream' = Tail(stream) /\ orders' = orders

LEMMA ReceivedStream ==
  ASSUME MessagesInv, Received
  PROVE  /\ 1 \in DOMAIN stream /\ Head(stream) = stream[1] /\ DOMAIN stream \subseteq Nat
         /\ DOMAIN stream' \subseteq Nat
         /\ \A i \in DOMAIN stream' :
              i + 1 \in DOMAIN stream /\ i + 1 > 1 /\ stream'[i] = stream[i + 1]
         /\ \A j \in DOMAIN stream : j # 1 => j - 1 \in DOMAIN stream' /\ stream'[j - 1] = stream[j]
         /\ IsMessage(Head(stream), orders)
         /\ Sequence(stream')
<1> DEFINE s == stream
           u == stream'
<1>1. Sequence(s) /\ s # <<>> /\ u = Tail(s)
  BY DEF MessagesInv, Received
<1>2. /\ Sequence(u)
      /\ 1 \in DOMAIN s /\ Head(s) = s[1] /\ DOMAIN s \subseteq Nat
      /\ \A i \in DOMAIN u : i + 1 \in DOMAIN s /\ i + 1 > 1 /\ u[i] = s[i + 1]
      /\ \A j \in DOMAIN s : j # 1 => j - 1 \in DOMAIN u /\ u[j - 1] = s[j]
      /\ DOMAIN u \subseteq Nat
  <2> HIDE DEF s, u
  <2>1. Sequence(u)
    BY <1>1, TailSequence
  <2>2. /\ 1 \in DOMAIN s /\ Head(s) = s[1] /\ DOMAIN s \subseteq Nat
        /\ \A i \in DOMAIN u : i + 1 \in DOMAIN s /\ i + 1 > 1 /\ u[i] = s[i + 1]
        /\ \A j \in DOMAIN s : j # 1 => j - 1 \in DOMAIN u /\ u[j - 1] = s[j]
        /\ DOMAIN u \subseteq Nat
    BY <1>1, TailSequence
  <2> QED
    BY <2>1, <2>2
<1>3. IsMessage(Head(stream), orders)
  BY <1>2 DEF MessagesInv
<1> QED
  BY <1>2, <1>3

LEMMA ReceivedMessages ==
  ASSUME MessagesInv, Received
  PROVE  /\ MessagesInv'
         /\ \A k \in DOMAIN orders : Quiet(k) => Quiet(k)'
         /\ \A k \in DOMAIN orders :
              Tells(Head(stream), k) /\ Ends(Head(stream)) => Quiet(k)'
         /\ \A k \in DOMAIN orders :
              Closing(k) => Closing(k)' \/ (Tells(Head(stream), k) /\ Ends(Head(stream)))
<1>1. /\ 1 \in DOMAIN stream /\ Head(stream) = stream[1] /\ DOMAIN stream \subseteq Nat
      /\ DOMAIN stream' \subseteq Nat
      /\ \A i \in DOMAIN stream' :
           i + 1 \in DOMAIN stream /\ i + 1 > 1 /\ stream'[i] = stream[i + 1]
      /\ \A j \in DOMAIN stream : j # 1 => j - 1 \in DOMAIN stream' /\ stream'[j - 1] = stream[j]
      /\ Sequence(stream') /\ orders' = orders
  BY ReceivedStream DEF Received
<1>2. \A i, j \in DOMAIN stream : \A k \in DOMAIN orders :
        i < j /\ Tells(stream[i], k) /\ Tells(stream[j], k) => ~Ends(stream[i])
  BY DEF MessagesInv
<1>3. \A i \in DOMAIN stream' : IsMessage(stream'[i], orders)
  BY <1>1 DEF MessagesInv
<1>4. \A i, j \in DOMAIN stream' : \A k \in DOMAIN orders :
        i < j /\ Tells(stream'[i], k) /\ Tells(stream'[j], k) => ~Ends(stream'[i])
  <2> SUFFICES ASSUME NEW i \in DOMAIN stream', NEW j \in DOMAIN stream', NEW k \in DOMAIN orders,
                      i < j, Tells(stream'[i], k), Tells(stream'[j], k)
               PROVE  ~Ends(stream'[i])
    OBVIOUS
  <2>1. i + 1 < j + 1
    BY <1>1
  <2> QED
    BY <1>1, <1>2, <2>1
<1>5. MessagesInv'
  BY <1>1, <1>3, <1>4 DEF MessagesInv
<1>6. \A k \in DOMAIN orders : Quiet(k) => Quiet(k)'
  BY <1>1 DEF Quiet
<1>7. \A k \in DOMAIN orders : Tells(Head(stream), k) /\ Ends(Head(stream)) => Quiet(k)'
  BY <1>1, <1>2 DEF Quiet
<1>8. \A k \in DOMAIN orders :
        Closing(k) => Closing(k)' \/ (Tells(Head(stream), k) /\ Ends(Head(stream)))
  <2> SUFFICES ASSUME NEW k \in DOMAIN orders, NEW j \in DOMAIN stream,
                      Tells(stream[j], k), Ends(stream[j])
               PROVE  Closing(k)' \/ (Tells(Head(stream), k) /\ Ends(Head(stream)))
    BY DEF Closing
  <2>1. CASE j = 1
    BY <1>1, <2>1
  <2>2. CASE j # 1
    <3>1. j - 1 \in DOMAIN stream' /\ Tells(stream'[j - 1], k) /\ Ends(stream'[j - 1])
      BY <1>1, <2>2
    <3> QED
      BY <3>1 DEF Closing
  <2> QED
    BY <2>1, <2>2
<1> QED
  BY <1>5, <1>6, <1>7, <1>8

(* A message that does not pay for a trade of the order.                   *)
LEMMA StillAccounted ==
  ASSUME MessagesInv, Received, NEW k \in DOMAIN orders, ~Trade(Head(stream), k),
         PaidFor(k)' = PaidFor(k), Accounted(k)
  PROVE  Accounted(k)'
<1> DEFINE s == stream
           u == stream'
           paid == PaidFor(k)
           fills == orders[k].fills
<1>1. /\ 1 \in DOMAIN s /\ ~Trade(s[1], k)
      /\ DOMAIN u \subseteq Nat /\ DOMAIN s \subseteq Nat
      /\ \A i \in DOMAIN u : i + 1 \in DOMAIN s /\ i + 1 > 1 /\ u[i] = s[i + 1]
      /\ \A j \in DOMAIN s : j # 1 => j - 1 \in DOMAIN u /\ u[j - 1] = s[j]
  BY ReceivedStream
<1>2. /\ paid \in Nat /\ paid <= fills
      /\ \A i \in DOMAIN s : Trade(s[i], k) => s[i].fills \in (paid + 1)..fills
      /\ \A n \in (paid + 1)..fills : \E i \in DOMAIN s : Trade(s[i], k) /\ s[i].fills = n
      /\ \A i, j \in DOMAIN s : i < j /\ Trade(s[i], k) /\ Trade(s[j], k) => s[i].fills < s[j].fills
  BY DEF Accounted
<1>3. orders' = orders
  BY DEF Received
<1> SUFFICES
      /\ \A i \in DOMAIN u : Trade(u[i], k) => u[i].fills \in (paid + 1)..fills
      /\ \A n \in (paid + 1)..fills : \E i \in DOMAIN u : Trade(u[i], k) /\ u[i].fills = n
      /\ \A i, j \in DOMAIN u : i < j /\ Trade(u[i], k) /\ Trade(u[j], k) => u[i].fills < u[j].fills
  BY <1>2, <1>3 DEF Accounted
<1> HIDE DEF s, u, paid, fills
<1>4. \A i \in DOMAIN u : Trade(u[i], k) => u[i].fills \in (paid + 1)..fills
  BY <1>1, <1>2
<1>5. ASSUME NEW n \in (paid + 1)..fills
      PROVE  \E i \in DOMAIN u : Trade(u[i], k) /\ u[i].fills = n
  <2>1. PICK j \in DOMAIN s : Trade(s[j], k) /\ s[j].fills = n
    BY <1>2
  <2>2. j # 1
    BY <1>1, <2>1
  <2> QED
    BY <1>1, <2>1, <2>2
<1>6. ASSUME NEW i \in DOMAIN u, NEW j \in DOMAIN u, i < j, Trade(u[i], k), Trade(u[j], k)
      PROVE  u[i].fills < u[j].fills
  <2>1. i + 1 < j + 1
    BY <1>1, <1>6
  <2> QED
    BY <1>1, <1>2, <1>6, <2>1
<1> QED
  BY <1>4, <1>5, <1>6

(* A message that pays for a trade pays for the next one.                  *)
LEMMA NextAccounted ==
  ASSUME MessagesInv, Received, NEW k \in DOMAIN orders, Trade(Head(stream), k),
         PaidFor(k)' = PaidFor(k) + 1, Accounted(k), orders[k].fills \in Nat
  PROVE  Accounted(k)'
<1> DEFINE s == stream
           u == stream'
           paid == PaidFor(k)
           fills == orders[k].fills
<1>1. /\ 1 \in DOMAIN s /\ Trade(s[1], k)
      /\ DOMAIN u \subseteq Nat /\ DOMAIN s \subseteq Nat
      /\ \A i \in DOMAIN u : i + 1 \in DOMAIN s /\ i + 1 > 1 /\ u[i] = s[i + 1]
      /\ \A j \in DOMAIN s : j # 1 => j - 1 \in DOMAIN u /\ u[j - 1] = s[j]
  BY ReceivedStream
<1>2. /\ paid \in Nat /\ paid <= fills /\ fills \in Nat
      /\ \A i \in DOMAIN s : Trade(s[i], k) => s[i].fills \in (paid + 1)..fills
      /\ \A n \in (paid + 1)..fills : \E i \in DOMAIN s : Trade(s[i], k) /\ s[i].fills = n
      /\ \A i, j \in DOMAIN s : i < j /\ Trade(s[i], k) /\ Trade(s[j], k) => s[i].fills < s[j].fills
  BY DEF Accounted
<1>3. orders' = orders
  BY DEF Received
<1> SUFFICES
      /\ paid + 1 <= fills
      /\ \A i \in DOMAIN u : Trade(u[i], k) => u[i].fills \in (paid + 2)..fills
      /\ \A n \in (paid + 2)..fills : \E i \in DOMAIN u : Trade(u[i], k) /\ u[i].fills = n
      /\ \A i, j \in DOMAIN u : i < j /\ Trade(u[i], k) /\ Trade(u[j], k) => u[i].fills < u[j].fills
  <2>1. paid + 1 \in Nat /\ (paid + 1) + 1 = paid + 2
    BY <1>2
  <2> QED
    BY <1>3, <2>1 DEF Accounted
<1> HIDE DEF s, u, paid, fills
<1>4. s[1].fills = paid + 1 /\ paid + 1 <= fills
  <2>1. s[1].fills \in (paid + 1)..fills
    BY <1>1, <1>2
  <2>2. paid + 1 \in (paid + 1)..fills
    BY <1>2, <2>1
  <2>3. PICK j \in DOMAIN s : Trade(s[j], k) /\ s[j].fills = paid + 1
    BY <1>2, <2>2
  <2>4. j # 1 => 1 < j
    <3>1. j # 1 => j - 1 \in Nat
      BY <1>1
    <3>2. j \in Nat /\ (j # 1 => j - 1 # 0 \/ j = 1)
      BY <1>1
    <3>3. j # 1 => j - 1 \in DOMAIN u /\ (j - 1) + 1 > 1
      BY <1>1
    <3> QED
      BY <3>2, <3>3
  <2>5. j # 1 => s[1].fills < s[j].fills
    BY <1>1, <1>2, <2>3, <2>4
  <2> QED
    BY <1>2, <2>1, <2>2, <2>3, <2>5
<1>5. ASSUME NEW i \in DOMAIN u, Trade(u[i], k) PROVE u[i].fills \in (paid + 2)..fills
  <2>1. i + 1 \in DOMAIN s /\ i + 1 > 1 /\ u[i] = s[i + 1]
    BY <1>1
  <2>2. s[1].fills < s[i + 1].fills /\ s[i + 1].fills \in (paid + 1)..fills
    BY <1>1, <1>2, <1>5, <2>1
  <2> QED
    BY <1>2, <1>4, <2>1, <2>2
<1>6. ASSUME NEW n \in (paid + 2)..fills
      PROVE  \E i \in DOMAIN u : Trade(u[i], k) /\ u[i].fills = n
  <2>1. n \in (paid + 1)..fills /\ n # paid + 1
    BY <1>2
  <2>2. PICK j \in DOMAIN s : Trade(s[j], k) /\ s[j].fills = n
    BY <1>2, <2>1
  <2>3. j # 1
    BY <1>4, <2>1, <2>2
  <2> QED
    BY <1>1, <2>2, <2>3
<1>7. ASSUME NEW i \in DOMAIN u, NEW j \in DOMAIN u, i < j, Trade(u[i], k), Trade(u[j], k)
      PROVE  u[i].fills < u[j].fills
  <2>1. i + 1 < j + 1
    BY <1>1, <1>7
  <2> QED
    BY <1>1, <1>2, <1>7, <2>1
<1> QED
  BY <1>4, <1>5, <1>6, <1>7

(* The last message of an order completes what it paid for.                *)
LEMMA AllAccounted ==
  ASSUME MessagesInv, Received, NEW k \in DOMAIN orders, Tells(Head(stream), k),
         Ends(Head(stream)), Accounted(k), orders[k].fills \in Nat
  PROVE  orders[k].fills = PaidFor(k) + (IF Head(stream).traded THEN 1 ELSE 0)
<1> DEFINE s == stream
           m == Head(stream)
           paid == PaidFor(k)
           fills == orders[k].fills
<1>1. 1 \in DOMAIN s /\ m = s[1] /\ DOMAIN s \subseteq Nat
  BY ReceivedStream
<1>2. /\ paid \in Nat /\ paid <= fills /\ fills \in Nat
      /\ \A i \in DOMAIN s : Trade(s[i], k) => s[i].fills \in (paid + 1)..fills
      /\ \A n \in (paid + 1)..fills : \E i \in DOMAIN s : Trade(s[i], k) /\ s[i].fills = n
  BY DEF Accounted
<1>3. \A i \in DOMAIN s : Tells(s[i], k) => i = 1
  <2> SUFFICES ASSUME NEW i \in DOMAIN s, Tells(s[i], k), i # 1 PROVE FALSE
    OBVIOUS
  <2>1. 1 < i
    <3>1. i - 1 \in DOMAIN stream' /\ DOMAIN stream' \subseteq Nat
      BY ReceivedStream
    <3>2. (i - 1) + 1 > 1
      BY <3>1, ReceivedStream
    <3> QED
      BY <1>1, <3>2
  <2> QED
    BY <1>1, <2>1 DEF MessagesInv
<1>4. Tells(s[1], k) /\ (Trade(s[1], k) <=> m.traded)
  BY <1>1 DEF Trade
<1>5. \A i \in DOMAIN s : Trade(s[i], k) => i = 1
  BY <1>3 DEF Trade
<1> SUFFICES fills = paid + (IF m.traded THEN 1 ELSE 0)
  OBVIOUS
<1> HIDE DEF s, paid, fills, m
<1>6. CASE m.traded
  <2>1. s[1].fills \in (paid + 1)..fills
    BY <1>1, <1>2, <1>4, <1>6
  <2>2. paid + 1 \in (paid + 1)..fills /\ fills \in (paid + 1)..fills
    BY <1>2, <2>1
  <2>3. s[1].fills = paid + 1 /\ s[1].fills = fills
    BY <1>2, <1>5, <2>2
  <2> QED
    BY <1>6, <2>3
<1>7. CASE ~m.traded
  <2>1. \A n \in (paid + 1)..fills : FALSE
    BY <1>2, <1>4, <1>5, <1>7
  <2>2. ~(paid + 1 <= fills)
    BY <1>2, <2>1
  <2> QED
    BY <1>2, <1>7, <2>2
<1> QED
  BY <1>6, <1>7

-----------------------------------------------------------------------------
(* Each kind of message.                                                   *)
LEMMA OtherReceived ==
  ASSUME RecordInv, Received, UNCHANGED <<partial, trades, life, missed>>,
         \A k \in DOMAIN orders : ~(Tells(Head(stream), k) /\ Ends(Head(stream)))
                                  /\ ~Trade(Head(stream), k)
  PROVE  RecordInv'
<1>1. /\ MessagesInv' /\ orders' = orders
      /\ \A k \in DOMAIN orders : Quiet(k) => Quiet(k)'
      /\ \A k \in DOMAIN orders : Closing(k) => Closing(k)'
  BY ReceivedMessages DEF RecordInv, Received
<1>2. FillsInv'
  BY <1>1 DEF RecordInv, FillsInv
<1>3. TradesInv'
  BY <1>1 DEF RecordInv, TradesInv
<1>4. KnownInv'
  BY <1>1 DEF RecordInv, KnownInv, HasTrade
<1>5. FeesInv'
  <2>1. \A k \in DOMAIN orders : Accounted(k) => Accounted(k)'
    <3> SUFFICES ASSUME NEW k \in DOMAIN orders, Accounted(k) PROVE Accounted(k)'
      OBVIOUS
    <3>1. PaidFor(k)' = PaidFor(k)
      BY DEF PaidFor
    <3> QED
      BY <3>1, StillAccounted DEF RecordInv
  <2> QED
    BY <1>1, <2>1 DEF RecordInv, FeesInv, HasTrade
<1> QED
  BY <1>1, <1>2, <1>3, <1>4, <1>5 DEF RecordInv

LEMMA PartReceived ==
  ASSUME RecordInv, Received, UNCHANGED <<trades, life, missed>>,
         Head(stream).type = "order", Head(stream).state = "PARTIALLY_FILLED",
         partial' = With(partial, Head(stream).order, PaidSoFar(Head(stream)))
  PROVE  RecordInv'
<1> DEFINE m == Head(stream)
<1>0. PICK o : o = m.order
  OBVIOUS
<1>1. IsMessage(m, orders)
  BY ReceivedStream DEF RecordInv
<1>2. /\ o \in DOMAIN orders /\ m.traded = TRUE /\ ~Ends(m)
      /\ \A k : Tells(m, k) <=> k = o
      /\ Trade(m, o) /\ \A k : Trade(m, k) => k = o
  BY <1>0, <1>1 DEF IsMessage, Ends, Terminal, Tells, Trade
<1>3. /\ MessagesInv' /\ orders' = orders
      /\ \A k \in DOMAIN orders : Quiet(k) => Quiet(k)'
      /\ \A k \in DOMAIN orders : Closing(k) => Closing(k)'
  BY <1>2, ReceivedMessages DEF RecordInv, Received
<1>4. /\ DOMAIN partial' = DOMAIN partial \cup {o}
      /\ \A k \in DOMAIN partial' :
           partial'[k] = IF k = o THEN PaidFor(o) + 1 ELSE partial[k]
  <2>1. PaidSoFar(m) = PaidFor(o) + 1
    BY <1>0, <1>2 DEF PaidSoFar, PaidFor
  <2>2. partial' = With(partial, o, PaidFor(o) + 1)
    BY <1>0, <2>1
  <2> QED
    BY <2>2 DEF With
<1>5. PaidFor(o)' = PaidFor(o) + 1 /\ \A k : k # o => PaidFor(k)' = PaidFor(k)
  <2>1. /\ o \in DOMAIN partial' /\ partial'[o] = PaidFor(o) + 1
        /\ \A k : k # o => (k \in DOMAIN partial' <=> k \in DOMAIN partial)
        /\ \A k : k # o /\ k \in DOMAIN partial => partial'[k] = partial[k]
    BY <1>4
  <2>2. PaidFor(o)' = partial'[o]
    BY <2>1 DEF PaidFor
  <2>3. \A k : k # o => PaidFor(k)' = PaidFor(k)
    BY <2>1 DEF PaidFor
  <2> QED
    BY <2>1, <2>2, <2>3
<1>6. FillsInv'
  BY <1>2, <1>3, <1>4 DEF RecordInv, FillsInv
<1>7. TradesInv'
  BY <1>3 DEF RecordInv, TradesInv
<1>8. KnownInv'
  BY <1>3 DEF RecordInv, KnownInv, HasTrade
<1>9. FeesInv'
  <2>1. \A k \in DOMAIN orders : Accounted(k) => Accounted(k)'
    <3> SUFFICES ASSUME NEW k \in DOMAIN orders, Accounted(k) PROVE Accounted(k)'
      OBVIOUS
    <3>1. orders[k].fills \in Nat
      BY DEF RecordInv, FillsInv, IsFilled
    <3>2. CASE k = o
      BY <1>2, <1>5, <3>1, <3>2, NextAccounted DEF RecordInv
    <3>3. CASE k # o
      BY <1>2, <1>5, <3>3, StillAccounted DEF RecordInv
    <3> QED
      BY <3>2, <3>3
  <2> QED
    BY <1>3, <2>1 DEF RecordInv, FeesInv, HasTrade
<1> QED
  BY <1>3, <1>6, <1>7, <1>8, <1>9 DEF RecordInv

LEMMA LastReceived ==
  ASSUME RecordInv, Received, UNCHANGED <<life, missed>>,
         Head(stream).type = "order", Ends(Head(stream)),
         partial' = Without(partial, {Head(stream).order}),
         IF Head(stream).executed # 0 THEN EmitFill(Head(stream)) ELSE trades' = trades
  PROVE  RecordInv'
<1> DEFINE m == Head(stream)
<1>0. PICK o : o = m.order
  OBVIOUS
<1>1. IsMessage(m, orders) /\ MessagesInv
  BY ReceivedStream DEF RecordInv
<1>2. /\ o \in DOMAIN orders /\ m.traded \in BOOLEAN
      /\ orders[o].state = "done" /\ m.executed = orders[o].executed
      /\ \A k : Tells(m, k) <=> k = o
      /\ \A k : Trade(m, k) => k = o
  BY <1>0, <1>1 DEF IsMessage, Tells, Trade
<1>3. /\ MessagesInv' /\ orders' = orders
      /\ \A k \in DOMAIN orders : Quiet(k) => Quiet(k)'
      /\ \A k \in DOMAIN orders : Closing(k) => Closing(k)' \/ k = o
      /\ Quiet(o)'
  BY <1>2, ReceivedMessages DEF RecordInv, Received
<1>4. ~Quiet(o)
  BY <1>1, <1>2, ReceivedStream DEF Quiet
<1>5. ~HasTrade(o)
  BY <1>4 DEF RecordInv, TradesInv, HasTrade
<1>6. /\ o \notin DOMAIN partial' /\ DOMAIN partial' \subseteq DOMAIN partial
      /\ \A k : k # o => PaidFor(k)' = PaidFor(k)
      /\ PaidFor(o)' = 0
  <2>1. partial' = Without(partial, {o})
    BY <1>0
  <2> QED
    BY <2>1 DEF Without, PaidFor
<1>7. FillsInv'
  BY <1>3, <1>6 DEF RecordInv, FillsInv
<1>8. IsFilled(orders[o])
  BY <1>2 DEF RecordInv, FillsInv
<1>9. \A k \in DOMAIN orders : k # o /\ Accounted(k) => Accounted(k)'
  BY <1>1, <1>2, <1>6, StillAccounted
<1>10. CASE m.executed = 0
  <2>1. trades' = trades
    BY <1>10
  <2>2. TradesInv'
    BY <1>3, <2>1 DEF RecordInv, TradesInv
  <2>3. KnownInv'
    BY <1>2, <1>3, <1>10, <2>1 DEF RecordInv, KnownInv, HasTrade
  <2>4. Accounted(o)'
    <3>1. orders[o].fills = 0
      BY <1>2, <1>8, <1>10 DEF IsFilled
    <3>2. \A i \in DOMAIN stream' : ~Trade(stream'[i], o)
      BY <1>3 DEF Quiet, Trade
    <3>3. \A n \in 1..0 : FALSE
      OBVIOUS
    <3> DEFINE paid == PaidFor(o)'
    <3>4. paid = 0 /\ orders'[o].fills = 0
      BY <1>3, <1>6, <3>1
    <3>5. paid \in Nat /\ paid <= orders'[o].fills
      BY <3>4
    <3>6. (paid + 1)..orders'[o].fills = 1..0
      BY <3>4
    <3> HIDE DEF paid
    <3> QED
      BY <3>2, <3>3, <3>5, <3>6 DEF Accounted, paid
  <2>5. FeesInv'
    BY <1>3, <1>9, <2>1, <2>4 DEF RecordInv, FeesInv, HasTrade
  <2> QED
    BY <1>3, <1>7, <2>2, <2>3, <2>5 DEF RecordInv
<1>11. CASE m.executed # 0
  <2> DEFINE decision == IF m.id \in DOMAIN pending THEN pending[m.id].decision ELSE None
             own == orders[o].decision > life.decisions
             whole == ~missed
             emitted == [order |-> o, quantity |-> m.executed, paid |-> PaidSoFar(m),
                         own |-> own, whole |-> whole, decision |-> decision]
  <2>0. trades' = trades \cup {emitted}
    BY <1>0, <1>11 DEF EmitFill, Paid
  <2>1. PICK t : trades' = trades \cup {t} /\ t = emitted
    <3> HIDE DEF emitted
    <3> QED
      BY <2>0
  <2>2. /\ t.order = o /\ t.quantity = m.executed /\ t.paid = PaidSoFar(m)
        /\ t.own = own /\ t.whole = whole
    <3> HIDE DEF own, whole, decision
    <3> QED
      BY <2>1
  <2>3. t.own /\ t.whole => t.paid = orders[o].fills
    <3> SUFFICES ASSUME own, ~missed PROVE PaidSoFar(m) = orders[o].fills
      BY <2>2
    <3>1. Accounted(o)
      BY <1>2, <1>5 DEF RecordInv, FeesInv
    <3>2. orders[o].fills \in Nat
      BY <1>8 DEF IsFilled
    <3>3. orders[o].fills = PaidFor(o) + (IF m.traded THEN 1 ELSE 0)
      BY <1>1, <1>2, <3>1, <3>2, AllAccounted
    <3> QED
      BY <1>0, <3>3 DEF PaidSoFar, PaidFor
  <2> HIDE DEF own, whole, decision
  <2>4. TradesInv'
    <3>1. \A u \in trades : u.order # o
      BY <1>5 DEF HasTrade
    <3>2. \A u \in trades :
            /\ u.order \in DOMAIN orders' /\ orders'[u.order].state = "done"
            /\ u.quantity = orders'[u.order].executed
            /\ Quiet(u.order)'
            /\ u.own /\ u.whole => u.paid = orders'[u.order].fills
      BY <1>3 DEF RecordInv, TradesInv
    <3>3. /\ t.order \in DOMAIN orders' /\ orders'[t.order].state = "done"
          /\ t.quantity = orders'[t.order].executed
          /\ Quiet(t.order)'
          /\ t.own /\ t.whole => t.paid = orders'[t.order].fills
      BY <1>2, <1>3, <2>2, <2>3
    <3>4. \A u, v \in trades' : u.order = v.order => u = v
      <4>1. \A u, v \in trades : u.order = v.order => u = v
        BY DEF RecordInv, TradesInv
      <4> QED
        BY <2>1, <2>2, <3>1, <4>1
    <3> QED
      BY <2>1, <3>2, <3>3, <3>4 DEF TradesInv
  <2>5. HasTrade(o)' /\ \A k : HasTrade(k) => HasTrade(k)'
    BY <2>1, <2>2 DEF HasTrade
  <2>6. KnownInv'
    BY <1>3, <2>5 DEF RecordInv, KnownInv
  <2>7. FeesInv'
    BY <1>3, <1>9, <2>5 DEF RecordInv, FeesInv
  <2> QED
    BY <1>3, <1>7, <2>4, <2>6, <2>7 DEF RecordInv
<1> QED
  BY <1>10, <1>11

LEMMA UserDataKeepsRecords ==
  ASSUME RecordInv, OnUserData
  PROVE  RecordInv'
<1>1. orders' = orders /\ missed' = missed /\ life' = life
  BY DEF OnUserData, history
<1>2. CASE /\ stream # <<>>
           /\ ProcessAccountUpdate(Head(stream)) \/ ProcessOrderTradeUpdate(Head(stream))
           /\ stream' = Tail(stream) /\ UNCHANGED algoStream
  <2> DEFINE m == Head(stream)
  <2>1. Received
    BY <1>1, <1>2 DEF Received
  <2>2. IsMessage(m, orders)
    BY <2>1, ReceivedStream DEF RecordInv
  <2>3. CASE ProcessAccountUpdate(m)
    <3>1. partial' = partial /\ trades' = trades /\ m.type = "account"
      BY <2>3 DEF ProcessAccountUpdate, pairing
    <3>2. \A k : ~Tells(m, k) /\ ~Trade(m, k)
      BY <3>1 DEF Tells, Trade
    <3> QED
      BY <1>1, <2>1, <3>1, <3>2, OtherReceived
  <2>4. CASE ProcessOrderTradeUpdate(m)
    <3>1. m.type = "order"
      BY <2>4 DEF ProcessOrderTradeUpdate
    <3>2. CASE m.state = "PARTIALLY_FILLED"
      <4>1. partial' = With(partial, m.order, PaidSoFar(m)) /\ trades' = trades
        BY <2>4, <3>2 DEF ProcessOrderTradeUpdate, Paid, Terminal
      <4> QED
        BY <1>1, <2>1, <3>1, <3>2, <4>1, PartReceived
    <3>3. CASE Ends(m)
      <4>1. /\ partial' = Without(partial, {m.order})
            /\ IF m.executed # 0 THEN EmitFill(m) ELSE trades' = trades
        BY <2>4, <3>3 DEF ProcessOrderTradeUpdate, Ends, Terminal
      <4> QED
        BY <1>1, <2>1, <3>1, <3>3, <4>1, LastReceived
    <3>4. CASE m.state # "PARTIALLY_FILLED" /\ ~Ends(m)
      <4>1. partial' = partial /\ trades' = trades
        BY <2>4, <3>4 DEF ProcessOrderTradeUpdate, Ends, pairing
      <4>2. \A k : ~Trade(m, k)
        BY <2>2, <3>1, <3>4 DEF IsMessage, Trade
      <4> QED
        BY <1>1, <2>1, <3>4, <4>1, <4>2, OtherReceived
    <3> QED
      BY <3>2, <3>3, <3>4
  <2> QED
    BY <1>2, <2>3, <2>4
<1>3. CASE /\ algoStream # <<>> /\ ProcessAlgoUpdate(Head(algoStream))
           /\ UNCHANGED stream
  <2>1. partial' = partial /\ trades' = trades
    BY <1>3 DEF ProcessAlgoUpdate
  <2> QED
    BY <1>1, <1>3, <2>1, RecordsUntouched
<1> QED
  BY <1>2, <1>3 DEF OnUserData

LEMMA WorkKeepsRecords ==
  ASSUME ExecutorInv, RecordInv, Work
  PROVE  RecordInv'
<1>1. UNCHANGED <<partial, trades, life>>
  BY DEF Work, pairing
<1>2. OrdersInv /\ FillsInv
  BY DEF ExecutorInv, RecordInv
<1>3. CASE UNCHANGED exchange
  BY <1>1, <1>3, RecordsUntouched DEF exchange
<1>4. CASE \E a, d : Place(a, d)
  BY <1>1, <1>2, <1>4, PlaceSays, ExchangeKeepsRecords
<1>5. CASE \E numbers \in SUBSET {k \in DOMAIN orders : IsOpen(k)} : Withdraw(numbers)
  BY <1>1, <1>2, <1>5, WithdrawSays, ExchangeKeepsRecords
<1>6. PICK i \in DOMAIN requests : TryOrder(i) \/ TryCancel(i)
  BY DEF Work
<1>7. CASE TryOrder(i)
  BY <1>3, <1>4, <1>7 DEF TryOrder
<1>8. CASE TryCancel(i)
  <2>1. CASE CancelOne(i)
    <3>1. Found(requests[i].action) \in SUBSET {k \in DOMAIN orders : IsOpen(k)}
      BY DEF Found
    <3> QED
      BY <1>3, <1>5, <2>1, <3>1 DEF CancelOne
  <2>2. CASE CancelAll(i)
    <3> DEFINE openIn(conditional) ==
          {k \in DOMAIN orders : IsOpen(k) /\ Conditional(orders[k].kind) = conditional}
    <3>1. PICK asked \in SUBSET BOOLEAN :
            Withdraw(UNION {openIn(conditional) : conditional \in asked})
      BY <2>2 DEF CancelAll
    <3>2. UNION {openIn(conditional) : conditional \in asked}
            \in SUBSET {k \in DOMAIN orders : IsOpen(k)}
      OBVIOUS
    <3> QED
      BY <1>5, <3>1, <3>2
  <2> QED
    BY <1>8, <2>1, <2>2 DEF TryCancel
<1> QED
  BY <1>6, <1>7, <1>8

LEMMA NextRecords ==
  ASSUME ExecutorInv, RecordInv, [Next]_vars
  PROVE  RecordInv'
<1>1. CASE BeginEvent
  BY <1>1, RecordsUntouched DEF BeginEvent, exchange, history
<1>2. CASE Submit
  <2>1. UNCHANGED <<orders, stream, missed, partial, trades, life>>
    BY <1>2 DEF Submit, SubmitMarket, SubmitResting, SubmitCancel, Decide, exchange
  <2> QED
    BY <2>1, RecordsUntouched
<1>3. CASE Work
  BY <1>3, WorkKeepsRecords
<1>4. CASE \E i \in DOMAIN requests : TimeOut(i)
  <2>1. /\ UNCHANGED <<orders, stream, missed, partial, trades>>
        /\ life' = [life EXCEPT !.timeouts = @ + 1]
    BY <1>4 DEF TimeOut, exchange, pairing
  <2>2. life'.orders = life.orders /\ life'.decisions = life.decisions
    BY <2>1 DEF ExecutorInv, LifeInv
  <2> QED
    BY <2>1, <2>2, RecordsUntouched
<1>5. CASE OnUserData
  BY <1>5, UserDataKeepsRecords
<1>6. CASE Restart
  BY <1>6, RecordsRestarted
<1>7. CASE Market /\ UNCHANGED Executor
  <2>1. UNCHANGED <<partial, trades, life>>
    BY <1>7 DEF Executor, pairing, history
  <2>2. OrdersInv /\ FillsInv
    BY DEF ExecutorInv, RecordInv
  <2> QED
    BY <1>7, <2>1, <2>2, MarketSays, ExchangeKeepsRecords
<1>8. CASE Connect /\ UNCHANGED Executor
  BY <1>8, RecordsUntouched DEF Connect, Executor, pairing, history
<1>9. CASE /\ MayFail /\ Drop
           /\ life' = [life EXCEPT !.drops = @ + 1]
           /\ UNCHANGED <<account, pairing, seq, requests, reported, decisions, obeyed>>
  <2>1. life'.orders = life.orders /\ life'.decisions = life.decisions
    BY <1>9 DEF ExecutorInv, LifeInv
  <2> QED
    BY <1>9, <2>1, RecordsDropped DEF pairing
<1>10. CASE UNCHANGED vars
  BY <1>10, RecordsUntouched DEF vars, exchange
<1> QED
  BY <1>1, <1>2, <1>3, <1>4, <1>5, <1>6, <1>7, <1>8, <1>9, <1>10 DEF Next

(* An order's fills end in one Trade of its whole executed quantity, with  *)
(* the fees of all of them when no message was lost; once nothing is under *)
(* way every order that executed and ended has its Trade                   *)
(* (_process_order_trade_update, _accumulate_fill).                        *)
THEOREM FillsAreRecordedOnce == Spec => []RecordedOnce
<1>1. Init => RecordInv
  BY InitRecords
<1>2. ExecutorInv /\ RecordInv /\ [Next]_vars => RecordInv'
  BY NextRecords
<1>3. RecordInv => RecordedOnce
  <2> SUFFICES ASSUME RecordInv PROVE RecordedOnce
    OBVIOUS
  <2>1. stream = <<>> /\ ~missed =>
          \A k \in DOMAIN orders :
            k > life.orders /\ ~IsOpen(k) /\ orders[k].executed # 0 => HasTrade(k)
    BY EmptySequence DEF RecordInv, KnownInv, Closing, IsOpen, FillsInv, IsFilled
  <2> QED
    BY <2>1 DEF RecordInv, TradesInv, RecordedOnce, OwnTrades, HasTrade
<1> QED
  BY <1>1, <1>2, <1>3, ExecutorInvariant, PTL DEF Spec

-----------------------------------------------------------------------------
(***************************************************************************)
(* Fills are paired with their decisions.  The invariant says which ids    *)
(* can collide, which orders a decision can have, and that the decision of *)
(* a resting order is remembered until the message that ends it.           *)
(***************************************************************************)

(* The ids of the decisions: a resting order has one of its own, and so    *)
(* has a market order within the life of a process.                        *)
Rests(n) == decisions[n].kind \in {"limit", "stop"}
Own(n) == n > life.decisions
IsMarket(n) == decisions[n].kind = "market" /\ Own(n)

IdsInv ==
  /\ life.decisions \in Nat /\ life.decisions <= Len(decisions)
  /\ seq \in Nat /\ seq <= Len(decisions) /\ Len(decisions) <= MaxDecisions
  /\ \A n \in DOMAIN decisions :
       /\ decisions[n].kind \in {"market", "limit", "stop", "cancel"}
       /\ Rests(n) => decisions[n].id \in Ids
       /\ decisions[n].kind = "market" => decisions[n].id \in ToSet(MarketIds)
       /\ IsMarket(n) => \E i \in 1..seq : decisions[n].id = MarketIds[i]
  /\ \A n, p \in DOMAIN decisions :
       Rests(n) /\ decisions[p].kind # "cancel" /\ decisions[n].id = decisions[p].id => n = p
  /\ \A n, p \in DOMAIN decisions :
       IsMarket(n) /\ IsMarket(p) /\ decisions[n].id = decisions[p].id => n = p

PendingInv ==
  \A id \in DOMAIN pending :
    LET n == pending[id].decision
    IN /\ n \in DOMAIN decisions /\ Own(n)
       /\ decisions[n].id = id /\ decisions[n].kind # "cancel"
       /\ pending[id].resting = (decisions[n].kind # "market")

(* A decision accepted once has one order, or a triggered one and the      *)
(* market order it issued.                                                 *)
Of(k, n) == k \in DOMAIN orders /\ orders[k].decision = n
Issued(j, k) ==
  Conditional(orders[j].kind) /\ orders[j].state = "done" /\ orders[k].kind = "market"

AcceptedInv ==
  \A j \in DOMAIN orders :
    LET n == orders[j].decision
    IN /\ decisions[n].placed >= 1
       /\ decisions[n].placed <= 1 =>
            \A k \in DOMAIN orders : k # j /\ Of(k, n) => Issued(j, k) \/ Issued(k, j)

(* A conditional order that was withdrawn issues nothing.                  *)
Withdrew(id) ==
  \E n \in DOMAIN decisions :
    /\ Rests(n) /\ decisions[n].id = id
    /\ decisions[n].placed >= 1
    /\ decisions[n].placed <= 1 =>
         \A j : Of(j, n) => Conditional(orders[j].kind) /\ orders[j].state = "done"

AlgoInv ==
  /\ Sequence(algoStream)
  /\ \A i \in DOMAIN algoStream : algoStream[i].state \in Unfilled => Withdrew(algoStream[i].id)

(* The decision of a resting order that was accepted once is remembered    *)
(* until the message that ends the order is received.                      *)
Going(n) == \E k : Of(k, n) /\ (orders[k].state = "open" \/ Closing(k))
Awaited(n) == /\ Own(n) /\ Rests(n) /\ decisions[n].placed <= 1
              /\ decisions[n].placed = 0 \/ Going(n)
AwaitedInv == \A n \in DOMAIN decisions : Awaited(n) => decisions[n].id \in DOMAIN pending

Paired(t) ==
  LET n == orders[t.order].decision
  IN /\ t.order \in DOMAIN orders
     /\ t.decision \in {None, n}
     /\ Rests(n) /\ decisions[n].placed <= 1 => t.decision = n
PairsInv == \A t \in trades : t.own => Paired(t)

PairingInv == IdsInv /\ PendingInv /\ AcceptedInv /\ AlgoInv /\ AwaitedInv /\ PairsInv

(* A step of the exchange or the pool: decisions are accepted more often,  *)
(* a new order is the first of its decision or the one that a triggered    *)
(* order issues, and only a conditional order that ends has an algo        *)
(* message that says it did not fill.                                      *)
PlacedGrow ==
  /\ DOMAIN decisions' = DOMAIN decisions /\ Len(decisions') = Len(decisions)
  /\ \A n \in DOMAIN decisions :
       /\ decisions'[n].kind = decisions[n].kind /\ decisions'[n].id = decisions[n].id
       /\ decisions[n].placed \in Nat /\ decisions'[n].placed \in Nat
       /\ decisions[n].placed <= decisions'[n].placed

Issues(j, k) ==
  /\ Of(j, orders'[k].decision) /\ IsOpen(j) /\ Conditional(orders[j].kind)
  /\ orders'[j].state = "done" /\ orders'[k].kind = "market"

NewOrders ==
  \A k \in DOMAIN orders' \ DOMAIN orders :
    LET n == orders'[k].decision
    IN /\ \A j \in DOMAIN orders' \ DOMAIN orders : j = k
       /\ decisions'[n].placed >= 1
       /\ decisions'[n].placed <= 1 =>
            decisions[n].placed = 0 \/ \E j \in DOMAIN orders : Issues(j, k)

NewAlgo ==
  /\ Sequence(algoStream')
  /\ \A i \in DOMAIN algoStream' : algoStream'[i].state \in Unfilled =>
       \/ i \in DOMAIN algoStream /\ algoStream'[i] = algoStream[i]
       \/ /\ DOMAIN orders' = DOMAIN orders
          /\ \E j \in DOMAIN orders :
               /\ IsOpen(j) /\ Conditional(orders[j].kind)
               /\ orders[j].id = algoStream'[i].id /\ orders'[j].state = "done"

LEMMA IdsStay ==
  ASSUME IdsInv, PlacedGrow, seq' = seq, life'.decisions = life.decisions
  PROVE  IdsInv'
<1>1. /\ DOMAIN decisions' = DOMAIN decisions /\ Len(decisions') = Len(decisions)
      /\ \A n \in DOMAIN decisions :
           /\ decisions'[n].kind = decisions[n].kind /\ decisions'[n].id = decisions[n].id
           /\ Rests(n)' <=> Rests(n)
           /\ IsMarket(n)' <=> IsMarket(n)
  BY DEF PlacedGrow, Rests, IsMarket, Own
<1>2. \A n \in DOMAIN decisions' :
        /\ decisions'[n].kind \in {"market", "limit", "stop", "cancel"}
        /\ Rests(n)' => decisions'[n].id \in Ids
        /\ decisions'[n].kind = "market" => decisions'[n].id \in ToSet(MarketIds)
        /\ IsMarket(n)' => \E i \in 1..seq' : decisions'[n].id = MarketIds[i]
  BY <1>1 DEF IdsInv
<1>3. \A n, p \in DOMAIN decisions' :
        Rests(n)' /\ decisions'[p].kind # "cancel" /\ decisions'[n].id = decisions'[p].id
          => n = p
  BY <1>1 DEF IdsInv
<1>4. \A n, p \in DOMAIN decisions' :
        IsMarket(n)' /\ IsMarket(p)' /\ decisions'[n].id = decisions'[p].id => n = p
  BY <1>1 DEF IdsInv
<1>5. /\ life'.decisions \in Nat /\ life'.decisions <= Len(decisions')
      /\ seq' \in Nat /\ seq' <= Len(decisions') /\ Len(decisions') <= MaxDecisions
  BY <1>1 DEF IdsInv
<1> QED
  BY <1>2, <1>3, <1>4, <1>5 DEF IdsInv

LEMMA PendingStays ==
  ASSUME PendingInv, PlacedGrow, pending' = pending, life'.decisions = life.decisions
  PROVE  PendingInv'
BY DEF PendingInv, PlacedGrow, Own

(* An open conditional order is the only one of a decision accepted once.  *)
LEMMA OnlyOne ==
  ASSUME AcceptedInv, NEW k \in DOMAIN orders, IsOpen(k), Conditional(orders[k].kind),
         NEW j \in DOMAIN orders, orders[j].decision = orders[k].decision,
         decisions[orders[k].decision].placed <= 1
  PROVE  j = k
<1>1. SUFFICES ASSUME j # k PROVE FALSE
  OBVIOUS
<1>2. Issued(k, j) \/ Issued(j, k)
  BY <1>1 DEF AcceptedInv, Of
<1> QED
  BY <1>2 DEF Issued, IsOpen, Conditional

LEMMA AcceptedStays ==
  ASSUME OrdersInv, OrdersInv', AcceptedInv, OrdersGrow, PlacedGrow, NewOrders
  PROVE  AcceptedInv'
<1>1. \A j \in DOMAIN orders :
        /\ j \in DOMAIN orders' /\ orders'[j].decision = orders[j].decision
        /\ orders[j].decision \in DOMAIN decisions
        /\ decisions[orders[j].decision].placed >= 1
  BY DEF OrdersInv, IsOrder, OrdersGrow, AcceptedInv
<1>2. ASSUME NEW j \in DOMAIN orders'
      PROVE  decisions'[orders'[j].decision].placed >= 1
  <2>1. CASE j \in DOMAIN orders
    BY <1>1, <2>1 DEF PlacedGrow
  <2>2. CASE j \notin DOMAIN orders
    BY <2>2 DEF NewOrders
  <2> QED
    BY <2>1, <2>2
<1>3. ASSUME NEW j \in DOMAIN orders, NEW k \in DOMAIN orders, k # j,
             orders[k].decision = orders[j].decision,
             decisions'[orders[j].decision].placed <= 1
      PROVE  Issued(j, k)' \/ Issued(k, j)'
  <2>1. decisions[orders[j].decision].placed <= 1
    BY <1>1, <1>3 DEF PlacedGrow
  <2>2. Issued(j, k) \/ Issued(k, j)
    BY <1>3, <2>1 DEF AcceptedInv, Of
  <2> QED
    BY <2>2 DEF Issued, OrdersGrow
<1>4. ASSUME NEW j \in DOMAIN orders, NEW k \in DOMAIN orders' \ DOMAIN orders,
             orders'[k].decision = orders[j].decision,
             decisions'[orders[j].decision].placed <= 1
      PROVE  Issued(j, k)'
  <2>1. decisions[orders[j].decision].placed <= 1 /\ decisions[orders[j].decision].placed # 0
    BY <1>1, <1>4 DEF PlacedGrow
  <2>2. PICK i \in DOMAIN orders : Issues(i, k)
    BY <1>4, <2>1 DEF NewOrders
  <2>3. i = j
    BY <1>4, <2>1, <2>2, OnlyOne DEF Issues, Of
  <2> QED
    BY <2>2, <2>3 DEF Issues, Issued, OrdersGrow
<1>5. ASSUME NEW j \in DOMAIN orders', NEW k \in DOMAIN orders', k # j,
             orders'[k].decision = orders'[j].decision,
             decisions'[orders'[j].decision].placed <= 1
      PROVE  Issued(j, k)' \/ Issued(k, j)'
  <2>1. CASE j \in DOMAIN orders /\ k \in DOMAIN orders
    BY <1>1, <1>3, <1>5, <2>1
  <2>2. CASE j \in DOMAIN orders /\ k \notin DOMAIN orders
    BY <1>1, <1>4, <1>5, <2>2
  <2>3. CASE j \notin DOMAIN orders /\ k \in DOMAIN orders
    BY <1>1, <1>4, <1>5, <2>3
  <2>4. CASE j \notin DOMAIN orders /\ k \notin DOMAIN orders
    BY <1>5, <2>4 DEF NewOrders
  <2> QED
    BY <2>1, <2>2, <2>3, <2>4
<1> QED
  BY <1>2, <1>5 DEF AcceptedInv, Of

LEMMA WithdrewStays ==
  ASSUME OrdersGrow, PlacedGrow, NewOrders, NEW id, Withdrew(id)
  PROVE  Withdrew(id)'
<1>1. PICK n \in DOMAIN decisions :
        /\ Rests(n) /\ decisions[n].id = id
        /\ decisions[n].placed >= 1
        /\ decisions[n].placed <= 1 =>
             \A j : Of(j, n) => Conditional(orders[j].kind) /\ orders[j].state = "done"
  BY DEF Withdrew
<1>2. n \in DOMAIN decisions' /\ Rests(n)' /\ decisions'[n].id = id /\ decisions'[n].placed >= 1
  BY <1>1 DEF PlacedGrow, Rests
<1>3. ASSUME decisions'[n].placed <= 1, NEW j \in DOMAIN orders', orders'[j].decision = n
      PROVE  Conditional(orders'[j].kind) /\ orders'[j].state = "done"
  <2>1. decisions[n].placed <= 1 /\ decisions[n].placed # 0
    BY <1>1, <1>3 DEF PlacedGrow
  <2>2. CASE j \in DOMAIN orders
    BY <1>1, <1>3, <2>1, <2>2 DEF OrdersGrow, Of
  <2>3. CASE j \notin DOMAIN orders
    <3>1. PICK i \in DOMAIN orders : Issues(i, j)
      BY <1>3, <2>1, <2>3 DEF NewOrders
    <3> QED
      BY <1>1, <1>3, <2>1, <3>1 DEF Issues, IsOpen
  <2> QED
    BY <2>2, <2>3
<1>4. decisions'[n].placed <= 1 =>
        \A j : Of(j, n)' => Conditional(orders'[j].kind) /\ orders'[j].state = "done"
  BY <1>3 DEF Of
<1> QED
  BY <1>2, <1>4 DEF Withdrew

LEMMA AlgoStays ==
  ASSUME OrdersInv, AcceptedInv, AlgoInv, OrdersGrow, PlacedGrow, NewOrders, NewAlgo
  PROVE  AlgoInv'
<1>1. ASSUME NEW i \in DOMAIN algoStream', NEW id, id = algoStream'[i].id,
             algoStream'[i].state \in Unfilled
      PROVE  Withdrew(id)'
  <2>1. CASE i \in DOMAIN algoStream /\ algoStream'[i] = algoStream[i]
    <3>1. Withdrew(id)
      BY <1>1, <2>1 DEF AlgoInv
    <3> QED
      BY <3>1, WithdrewStays
  <2>2. CASE /\ DOMAIN orders' = DOMAIN orders
             /\ \E j \in DOMAIN orders :
                  /\ IsOpen(j) /\ Conditional(orders[j].kind)
                  /\ orders[j].id = id /\ orders'[j].state = "done"
    <3>1. PICK j \in DOMAIN orders :
            /\ IsOpen(j) /\ Conditional(orders[j].kind)
            /\ orders[j].id = id /\ orders'[j].state = "done"
      BY <2>2
    <3>2. PICK n : n = orders[j].decision
      OBVIOUS
    <3>3. /\ n \in DOMAIN decisions /\ Rests(n) /\ decisions[n].id = id
          /\ decisions[n].placed >= 1
      BY <3>1, <3>2 DEF OrdersInv, IsOrder, Conditional, Rests, AcceptedInv
    <3>4. ASSUME decisions'[n].placed <= 1, NEW k \in DOMAIN orders', orders'[k].decision = n
          PROVE  Conditional(orders'[k].kind) /\ orders'[k].state = "done"
      <4>1. decisions[n].placed <= 1 /\ k \in DOMAIN orders /\ orders[k].decision = n
        BY <2>2, <3>3, <3>4 DEF PlacedGrow, OrdersGrow
      <4>2. k = j
        BY <3>1, <3>2, <4>1, OnlyOne
      <4> QED
        BY <3>1, <4>2 DEF OrdersGrow
    <3>5. n \in DOMAIN decisions' /\ Rests(n)' /\ decisions'[n].id = id
          /\ decisions'[n].placed >= 1
      BY <3>3 DEF PlacedGrow, Rests
    <3>6. decisions'[n].placed <= 1 =>
            \A k : Of(k, n)' => Conditional(orders'[k].kind) /\ orders'[k].state = "done"
      BY <3>4 DEF Of
    <3> QED
      BY <3>5, <3>6 DEF Withdrew
  <2> QED
    BY <1>1, <2>1, <2>2 DEF NewAlgo
<1>2. Sequence(algoStream')
  BY DEF NewAlgo
<1> QED
  BY <1>1, <1>2 DEF AlgoInv

LEMMA AwaitedStays ==
  ASSUME OrdersInv, OrdersInv', MessagesInv, FillsInv, AwaitedInv,
         OrdersGrow, PlacedGrow, NewOrders, NEW extra, Says(extra), Said(extra),
         pending' = pending, life'.decisions = life.decisions
  PROVE  AwaitedInv'
<1>1. ASSUME NEW k \in DOMAIN orders, orders'[k].state = "open" \/ Closing(k)'
      PROVE  orders[k].state = "open" \/ Closing(k)
  <2>1. CASE orders'[k].state = "open"
    BY <2>1 DEF OrdersGrow, FillsInv, IsFilled
  <2>2. CASE Closing(k)'
    <3>1. PICK i \in DOMAIN stream' : Tells(stream'[i], k) /\ Ends(stream'[i])
      BY <2>2 DEF Closing, Tells, Ends
    <3>2. \/ i \in DOMAIN stream /\ stream'[i] = stream[i]
          \/ \E j \in DOMAIN extra : stream'[i] = extra[j]
      BY SaidStays
    <3> QED
      BY <3>1, <3>2 DEF Closing, Says
  <2> QED
    BY <1>1, <2>1, <2>2
<1>2. ASSUME NEW n \in DOMAIN decisions', Awaited(n)'
      PROVE  decisions'[n].id \in DOMAIN pending'
  <2>1. /\ n \in DOMAIN decisions /\ Own(n) /\ Rests(n) /\ decisions[n].placed <= 1
        /\ decisions'[n].id = decisions[n].id
        /\ decisions'[n].placed = 0 => decisions[n].placed = 0
        /\ decisions'[n].placed <= 1
    BY <1>2 DEF Awaited, PlacedGrow, Own, Rests
  <2>2. CASE decisions'[n].placed = 0
    BY <2>1, <2>2 DEF AwaitedInv, Awaited
  <2>3. CASE Going(n)'
    <3>1. PICK k \in DOMAIN orders' :
            orders'[k].decision = n /\ (orders'[k].state = "open" \/ Closing(k)')
      BY <2>3 DEF Going, Of
    <3>2. CASE k \in DOMAIN orders
      <4>1. Going(n)
        BY <1>1, <3>1, <3>2 DEF Going, Of, OrdersGrow
      <4> QED
        BY <2>1, <4>1 DEF AwaitedInv, Awaited
    <3>3. CASE k \notin DOMAIN orders
      <4>1. decisions[n].placed = 0 \/ \E j \in DOMAIN orders : Issues(j, k)
        BY <2>1, <3>1, <3>3 DEF NewOrders
      <4>2. (\E j \in DOMAIN orders : Issues(j, k)) => Going(n)
        BY <3>1 DEF Going, Of, Issues, IsOpen
      <4> QED
        BY <2>1, <4>1, <4>2 DEF AwaitedInv, Awaited
    <3> QED
      BY <3>2, <3>3
  <2> QED
    BY <1>2, <2>2, <2>3 DEF Awaited
<1> QED
  BY <1>2 DEF AwaitedInv

LEMMA PairsStay ==
  ASSUME OrdersInv, PairsInv, OrdersGrow, PlacedGrow, trades' = trades
  PROVE  PairsInv'
<1>1. \A k \in DOMAIN orders : orders[k].decision \in DOMAIN decisions
  BY DEF OrdersInv, IsOrder
<1> SUFFICES ASSUME NEW t \in trades, t.own PROVE Paired(t)'
  BY DEF PairsInv
<1>2. PICK n : n = orders[t.order].decision
  OBVIOUS
<1>3. /\ t.order \in DOMAIN orders /\ t.decision \in {None, n}
      /\ Rests(n) /\ decisions[n].placed <= 1 => t.decision = n
  BY <1>2 DEF PairsInv, Paired
<1>4. t.order \in DOMAIN orders' /\ orders'[t.order].decision = n /\ n \in DOMAIN decisions
  BY <1>1, <1>2, <1>3 DEF OrdersGrow
<1>5. Rests(n)' => Rests(n)
  BY <1>4 DEF PlacedGrow, Rests
<1>6. decisions'[n].placed <= 1 => decisions[n].placed <= 1
  BY <1>4 DEF PlacedGrow
<1> QED
  BY <1>3, <1>4, <1>5, <1>6 DEF Paired

LEMMA ProgressKeepsPairing ==
  ASSUME ExecutorInv, ExecutorInv', RecordInv, PairingInv,
         OrdersGrow, PlacedGrow, NewOrders, NewAlgo,
         NEW extra, Says(extra), Said(extra),
         UNCHANGED <<pending, trades, seq, life>>
  PROVE  PairingInv'
BY IdsStay, PendingStays, AcceptedStays, AlgoStays, AwaitedStays, PairsStay
   DEF ExecutorInv, RecordInv, PairingInv

LEMMA PlacedSame ==
  ASSUME DecisionsInv, decisions' = decisions
  PROVE  PlacedGrow
BY DEF DecisionsInv, IsDecision, PlacedGrow

LEMMA NoNewOrders ==
  ASSUME DOMAIN orders' = DOMAIN orders
  PROVE  NewOrders
BY DEF NewOrders

LEMMA AlgoSent ==
  ASSUME NEW messages, NEW extra, Send(messages, extra), Sequence(algoStream), Sequence(extra)
  PROVE  /\ Sequence(algoStream')
         /\ \A i \in DOMAIN algoStream' :
              \/ i \in DOMAIN algoStream /\ algoStream'[i] = algoStream[i]
              \/ \E j \in DOMAIN extra : algoStream'[i] = extra[j]
<1>1. CASE algoStream' = algoStream
  BY <1>1
<1>2. CASE algoStream' = algoStream \o extra
  <2> DEFINE s == algoStream
             u == algoStream'
  <2>1. Joined(u, s, extra)
    BY <1>2 DEF Joined
  <2>2. Sequence(s)
    OBVIOUS
  <2>3. /\ Sequence(u)
        /\ \A i \in DOMAIN u :
             \/ i \in DOMAIN s /\ u[i] = s[i]
             \/ \E j \in DOMAIN extra : u[i] = extra[j]
    <3> HIDE DEF s, u
    <3> QED
      BY <2>1, JoinedSequence
  <2> QED
    BY <2>3
<1> QED
  BY <1>1, <1>2 DEF Send

(* Algo messages that do not say that an order went unfilled. *)
LEMMA OtherAlgo ==
  ASSUME NEW messages, NEW extra, Send(messages, extra), Sequence(algoStream), Sequence(extra),
         \A j \in DOMAIN extra : extra[j].state \notin Unfilled
  PROVE  NewAlgo
BY AlgoSent DEF NewAlgo

LEMMA NoAlgo ==
  ASSUME NEW messages, Send(messages, <<>>), Sequence(algoStream)
  PROVE  NewAlgo
<1>1. Sequence(<<>>) /\ \A j \in DOMAIN <<>> : <<>>[j].state \notin Unfilled
  BY EmptySequence
<1> QED
  BY <1>1, OtherAlgo

LEMMA OneAlgo ==
  ASSUME NEW messages, NEW id, NEW state, Send(messages, <<AlgoUpdate(id, state)>>),
         Sequence(algoStream), state \notin Unfilled
  PROVE  NewAlgo
<1> DEFINE m == AlgoUpdate(id, state)
<1>1. m.state \notin Unfilled
  BY DEF AlgoUpdate
<1> HIDE DEF m
<1>2. Sequence(<<m>>) /\ \A j \in DOMAIN <<m>> : <<m>>[j].state \notin Unfilled
  <2>1. Sequence(<<m>>) /\ DOMAIN <<m>> = {1} /\ <<m>>[1] = m
    BY ShortSequences
  <2> QED
    BY <1>1, <2>1
<1>3. Send(messages, <<m>>)
  BY DEF m
<1> QED
  BY <1>2, <1>3, OtherAlgo

LEMMA ExecutePairs ==
  ASSUME OrdersInv, FillsInv, Sequence(algoStream), NEW k \in DOMAIN orders, Execute(k)
  PROVE  NewOrders /\ NewAlgo
<1>1. DOMAIN orders' = DOMAIN orders /\ \E messages : Send(messages, <<>>)
  BY ExecutedOrder
<1> QED
  BY <1>1, NoNewOrders, NoAlgo

LEMMA ExpirePairs ==
  ASSUME OrdersInv, FillsInv, Sequence(algoStream), NEW k \in DOMAIN orders, Expire(k)
  PROVE  NewOrders /\ NewAlgo
<1>1. Withdrawn({k}) /\ \E messages : Send(messages, <<>>)
  BY DEF Expire
<1>2. DOMAIN orders' = DOMAIN orders
  BY <1>1, WithdrawnOrders
<1> QED
  BY <1>1, <1>2, NoNewOrders, NoAlgo

LEMMA TriggerPairs ==
  ASSUME OrdersInv, FillsInv, AcceptedInv, DecisionsInv, Sequence(algoStream), decisions' = decisions,
         NEW k \in DOMAIN orders, Trigger(k)
  PROVE  NewOrders /\ NewAlgo
<1> DEFINE last == Len(orders) + 1
<1>1. /\ last \notin DOMAIN orders
      /\ DOMAIN orders' = DOMAIN orders \cup {last}
      /\ orders[k].state = "open" /\ orders'[k].state = "done"
      /\ Conditional(orders[k].kind)
      /\ orders'[last].kind = "market" /\ orders'[last].decision = orders[k].decision
  BY TriggeredOrders
<1>2. Send(<<>>, <<AlgoUpdate(orders[k].id, "TRIGGERED")>>)
  BY DEF Trigger
<1>3. NewAlgo
  BY <1>2, OneAlgo DEF Unfilled
<1> HIDE DEF last
<1>4. Issues(k, last)
  BY <1>1 DEF Issues, Of, IsOpen
<1>5. decisions'[orders'[last].decision].placed >= 1
  BY <1>1 DEF AcceptedInv
<1>6. NewOrders
  BY <1>1, <1>4, <1>5 DEF NewOrders
<1> QED
  BY <1>3, <1>6

LEMMA PlacedMore ==
  ASSUME DecisionsInv, NEW d \in DOMAIN decisions, CountPlaced(d)
  PROVE  PlacedGrow /\ decisions'[d].placed = decisions[d].placed + 1
<1>1. /\ Sequence(decisions) /\ \A n \in DOMAIN decisions : IsDecision(decisions[n])
      /\ decisions' = [decisions EXCEPT ![d].placed = @ + 1]
  BY DEF DecisionsInv, CountPlaced
<1>2. /\ decisions' = [n \in DOMAIN decisions |-> decisions'[n]]
      /\ \A n \in DOMAIN decisions : n # d => decisions'[n] = decisions[n]
      /\ decisions'[d] = [decisions[d] EXCEPT !.placed = @ + 1]
  BY <1>1
<1>3. /\ decisions'[d].placed = decisions[d].placed + 1
      /\ decisions'[d].kind = decisions[d].kind
      /\ decisions'[d].id = decisions[d].id
  BY <1>1, <1>2 DEF IsDecision
<1>4. DOMAIN decisions' = DOMAIN decisions /\ Len(decisions') = Len(decisions)
  BY <1>1, <1>2, UpdatedSequence
<1>5. ASSUME NEW n \in DOMAIN decisions
      PROVE  /\ decisions'[n].kind = decisions[n].kind /\ decisions'[n].id = decisions[n].id
             /\ decisions[n].placed \in Nat /\ decisions'[n].placed \in Nat
             /\ decisions[n].placed <= decisions'[n].placed
  <2>1. decisions[n].placed \in Nat
    BY <1>1 DEF IsDecision
  <2>2. CASE n = d
    BY <1>3, <2>1, <2>2
  <2>3. CASE n # d
    BY <1>2, <2>1, <2>3
  <2> QED
    BY <2>2, <2>3
<1> QED
  BY <1>3, <1>4, <1>5 DEF PlacedGrow

LEMMA PlacePairs ==
  ASSUME OrdersInv, AcceptedInv, DecisionsInv, Sequence(algoStream),
         NEW a, NEW d \in DOMAIN decisions, Place(a, d), CountPlaced(d)
  PROVE  PlacedGrow /\ NewOrders /\ NewAlgo
<1> DEFINE o == [id |-> a.id, kind |-> a.kind, reduce |-> a.reduce, quantity |-> a.quantity,
                 executed |-> 0, fills |-> 0, state |-> "open", decision |-> d]
           last == Len(orders) + 1
<1>1. orders' = Append(orders, o) /\ Sequence(orders)
  BY DEF Place, Enters, OrdersInv
<1>2. o.decision = d
  OBVIOUS
<1> HIDE DEF o
<1>3. DOMAIN orders' = DOMAIN orders \cup {last} /\ orders'[last] = o
  BY <1>1, AppendSequence
<1> HIDE DEF last
<1>4. PlacedGrow /\ decisions'[d].placed = decisions[d].placed + 1
  BY PlacedMore
<1>5. NewOrders
  <2>1. decisions[d].placed \in Nat
    BY <1>4 DEF PlacedGrow
  <2>2. decisions'[d].placed >= 1 /\ (decisions'[d].placed <= 1 => decisions[d].placed = 0)
    BY <1>4, <2>1
  <2> QED
    BY <1>2, <1>3, <2>2 DEF NewOrders
<1>6. NewAlgo
  BY OneAlgo, NoAlgo DEF Place, Unfilled
<1> QED
  BY <1>4, <1>5, <1>6

LEMMA WithdrawPairs ==
  ASSUME OrdersInv, FillsInv, Sequence(algoStream),
         NEW numbers \in SUBSET {k \in DOMAIN orders : IsOpen(k)}, Withdraw(numbers)
  PROVE  NewOrders /\ NewAlgo
<1> DEFINE S == {k \in numbers : Conditional(orders[k].kind) = TRUE}
<1>1. PICK algo \in Bijection(1..Cardinality(S), S) :
        \E messages :
          Send(messages, [i \in DOMAIN algo |-> AlgoUpdate(orders[algo[i]].id, "CANCELED")])
  BY DEF Withdraw
<1>2. Withdrawn(numbers) /\ S \subseteq DOMAIN orders
  BY DEF Withdraw
<1>3. /\ DOMAIN orders' = DOMAIN orders
      /\ \A k \in numbers : orders'[k].state = "done"
  BY <1>2, WithdrawnOrders
<1>4. \A k \in S : k \in DOMAIN orders /\ IsOpen(k) /\ Conditional(orders[k].kind)
                   /\ orders'[k].state = "done"
  BY <1>3
<1> HIDE DEF S
<1>5. /\ Cardinality(S) \in Nat /\ DOMAIN algo = 1..Cardinality(S)
      /\ \A i \in DOMAIN algo : algo[i] \in S
  BY <1>1, <1>2, Listing DEF OrdersInv
<1> DEFINE extra == [i \in DOMAIN algo |-> AlgoUpdate(orders[algo[i]].id, "CANCELED")]
<1>6. /\ DOMAIN extra = DOMAIN algo
      /\ \A i \in DOMAIN algo : extra[i].id = orders[algo[i]].id
  BY DEF AlgoUpdate
<1>7. extra = [i \in 1..Cardinality(S) |-> extra[i]] /\ \E messages : Send(messages, extra)
  BY <1>1, <1>5
<1> HIDE DEF extra
<1>8. Sequence(extra)
  BY <1>5, <1>7, FunctionSequence
<1>9. /\ Sequence(algoStream')
      /\ \A i \in DOMAIN algoStream' :
           \/ i \in DOMAIN algoStream /\ algoStream'[i] = algoStream[i]
           \/ \E j \in DOMAIN extra : algoStream'[i] = extra[j]
  <2>1. PICK messages : Send(messages, extra)
    BY <1>7
  <2> QED
    BY <1>8, <2>1, AlgoSent
<1>10. NewAlgo
  <2>1. ASSUME NEW i \in DOMAIN algoStream', NEW j \in DOMAIN extra, algoStream'[i] = extra[j]
        PROVE  \E k \in DOMAIN orders :
                 /\ IsOpen(k) /\ Conditional(orders[k].kind)
                 /\ orders[k].id = algoStream'[i].id /\ orders'[k].state = "done"
    BY <1>4, <1>5, <1>6, <2>1
  <2> QED
    BY <1>3, <1>9, <2>1 DEF NewAlgo
<1> QED
  BY <1>3, <1>10, NoNewOrders

LEMMA MarketKeepsPairing ==
  ASSUME ExecutorInv, ExecutorInv', RecordInv, PairingInv, Market, UNCHANGED Executor
  PROVE  PairingInv'
<1>1. OrdersInv /\ DecisionsInv /\ FillsInv /\ AcceptedInv /\ Sequence(algoStream)
  BY DEF ExecutorInv, RecordInv, PairingInv, AlgoInv
<1>2. OrdersGrow /\ \E extra : Says(extra) /\ Said(extra)
  BY <1>1, MarketSays
<1>3. UNCHANGED <<pending, trades, seq, life>> /\ decisions' = decisions
  BY DEF Executor, pairing, history
<1>4. PlacedGrow
  BY <1>1, <1>3, PlacedSame
<1>5. NewOrders /\ NewAlgo
  BY <1>1, <1>3, ExecutePairs, ExpirePairs, TriggerPairs DEF Market
<1> QED
  BY <1>2, <1>3, <1>4, <1>5, ProgressKeepsPairing

LEMMA SameKeepsPairing ==
  ASSUME PairingInv, UNCHANGED <<orders, decisions, seq>>,
         life'.decisions = life.decisions, AlgoInv', PendingInv', AwaitedInv', PairsInv'
  PROVE  PairingInv'
<1>1. IdsInv'
  BY DEF PairingInv, IdsInv, Rests, IsMarket, Own
<1>2. AcceptedInv'
  BY DEF PairingInv, AcceptedInv, Of, Issued
<1> QED
  BY <1>1, <1>2 DEF PairingInv

LEMMA PairingUntouched ==
  ASSUME PairingInv,
         UNCHANGED <<orders, decisions, seq, stream, algoStream, pending, trades>>,
         life'.decisions = life.decisions
  PROVE  PairingInv'
<1>1. AlgoInv'
  BY DEF PairingInv, AlgoInv, Withdrew, Rests, Of
<1>2. PendingInv'
  BY DEF PairingInv, PendingInv, Own
<1>3. AwaitedInv'
  BY DEF PairingInv, AwaitedInv, Awaited, Own, Rests, Going, Of, Closing
<1>4. PairsInv'
  BY DEF PairingInv, PairsInv, Paired, Rests
<1> QED
  BY <1>1, <1>2, <1>3, <1>4, SameKeepsPairing

LEMMA WorkKeepsPairing ==
  ASSUME ExecutorInv, ExecutorInv', RecordInv, PairingInv, Work
  PROVE  PairingInv'
<1>1. UNCHANGED <<pending, trades, seq, life>>
  BY DEF Work, pairing
<1>2. OrdersInv /\ DecisionsInv /\ RequestsInv /\ FillsInv /\ AcceptedInv /\ Sequence(algoStream)
  BY DEF ExecutorInv, RecordInv, PairingInv, AlgoInv
<1>3. CASE UNCHANGED <<exchange, decisions>>
  BY <1>1, <1>3, PairingUntouched DEF exchange
<1>4. CASE \E a : \E d \in DOMAIN decisions : Place(a, d) /\ CountPlaced(d)
  <2>1. PlacedGrow /\ NewOrders /\ NewAlgo
    BY <1>2, <1>4, PlacePairs
  <2>2. OrdersGrow /\ \E extra : Says(extra) /\ Said(extra)
    BY <1>2, <1>4, PlaceSays
  <2> QED
    BY <1>1, <2>1, <2>2, ProgressKeepsPairing
<1>5. CASE /\ \E numbers \in SUBSET {k \in DOMAIN orders : IsOpen(k)} : Withdraw(numbers)
           /\ UNCHANGED decisions
  <2>1. PlacedGrow /\ NewOrders /\ NewAlgo
    BY <1>2, <1>5, WithdrawPairs, PlacedSame
  <2>2. OrdersGrow /\ \E extra : Says(extra) /\ Said(extra)
    BY <1>2, <1>5, WithdrawSays
  <2> QED
    BY <1>1, <2>1, <2>2, ProgressKeepsPairing
<1>6. PICK i \in DOMAIN requests : TryOrder(i) \/ TryCancel(i)
  BY DEF Work
<1>7. CASE TryOrder(i)
  <2>1. requests[i].decision \in DOMAIN decisions
    BY <1>2 DEF RequestsInv, IsRequest
  <2> QED
    BY <1>3, <1>4, <1>7, <2>1 DEF TryOrder
<1>8. CASE TryCancel(i)
  <2>1. CASE CancelOne(i)
    <3>1. Found(requests[i].action) \in SUBSET {k \in DOMAIN orders : IsOpen(k)}
      BY DEF Found
    <3> QED
      BY <1>3, <1>5, <1>8, <2>1, <3>1 DEF CancelOne, TryCancel
  <2>2. CASE CancelAll(i)
    <3> DEFINE openIn(conditional) ==
          {k \in DOMAIN orders : IsOpen(k) /\ Conditional(orders[k].kind) = conditional}
    <3>1. PICK asked \in SUBSET BOOLEAN :
            Withdraw(UNION {openIn(conditional) : conditional \in asked})
      BY <2>2 DEF CancelAll
    <3>2. UNION {openIn(conditional) : conditional \in asked}
            \in SUBSET {k \in DOMAIN orders : IsOpen(k)}
      OBVIOUS
    <3> QED
      BY <1>5, <1>8, <3>1, <3>2 DEF TryCancel
  <2> QED
    BY <1>8, <2>1, <2>2 DEF TryCancel
<1> QED
  BY <1>6, <1>7, <1>8

(***************************************************************************)
(* The engine's side.                                                      *)
(***************************************************************************)
LEMMA BeginEventKeepsPairing ==
  ASSUME PairingInv, BeginEvent
  PROVE  PairingInv'
<1>1. /\ UNCHANGED <<orders, decisions, seq, stream, algoStream, trades, life>>
      /\ pending' = Without(pending, {id \in DOMAIN pending : ~pending[id].resting})
  BY DEF BeginEvent, exchange, history
<1>2. /\ \A id \in DOMAIN pending' : id \in DOMAIN pending /\ pending'[id] = pending[id]
      /\ \A id \in DOMAIN pending : pending[id].resting => id \in DOMAIN pending'
  BY <1>1 DEF Without
<1>3. AlgoInv'
  BY <1>1 DEF PairingInv, AlgoInv, Withdrew, Rests, Of
<1>4. PendingInv'
  BY <1>1, <1>2 DEF PairingInv, PendingInv, Own
<1>5. AwaitedInv'
  <2> SUFFICES ASSUME NEW n \in DOMAIN decisions, Awaited(n) PROVE decisions[n].id \in DOMAIN pending'
    BY <1>1 DEF AwaitedInv, Awaited, Own, Rests, Going, Of, Closing
  <2>1. decisions[n].id \in DOMAIN pending /\ Rests(n)
    BY DEF PairingInv, AwaitedInv, Awaited
  <2>2. PICK p : p = pending[decisions[n].id].decision
    OBVIOUS
  <2>3. /\ p \in DOMAIN decisions /\ decisions[p].id = decisions[n].id
        /\ decisions[p].kind # "cancel"
        /\ pending[decisions[n].id].resting = (decisions[p].kind # "market")
    BY <2>1, <2>2 DEF PairingInv, PendingInv
  <2>4. p = n
    BY <2>1, <2>3 DEF PairingInv, IdsInv
  <2> QED
    BY <1>2, <2>1, <2>3, <2>4 DEF Rests
<1>6. PairsInv'
  BY <1>1 DEF PairingInv, PairsInv, Paired, Rests
<1> QED
  BY <1>1, <1>3, <1>4, <1>5, <1>6, SameKeepsPairing

(* A decision that is added has an id of its own, and is remembered unless *)
(* it is a cancel.                                                         *)
LEMMA SubmittedKeepsPairing ==
  ASSUME ExecutorInv, PairingInv, IdsInv', NEW d, NEW a, Decide(d, a),
         UNCHANGED exchange,
         d.kind \in {"market", "limit", "stop", "cancel"}, d.placed = 0,
         IF d.kind = "cancel" THEN pending' = pending
                              ELSE Remember(d.id, d.kind # "market")
  PROVE  PairingInv'
<1>0. PICK last : last = Len(decisions) + 1
  OBVIOUS
<1>1. /\ Len(decisions) \in Nat /\ DOMAIN decisions = 1..Len(decisions)
      /\ Len(decisions') = last
      /\ DOMAIN decisions' = DOMAIN decisions \cup {last}
      /\ \A n \in DOMAIN decisions : n # last /\ decisions'[n] = decisions[n]
      /\ decisions'[last] = d
  <2>1. Sequence(decisions) /\ decisions' = Append(decisions, d)
    BY DEF ExecutorInv, DecisionsInv, Decide
  <2> QED
    BY <1>0, <2>1, AppendSequence
<1>2. UNCHANGED <<orders, stream, algoStream, trades, life>>
  BY DEF Decide, exchange
<1>3. life.decisions \in Nat /\ life.decisions <= Len(decisions)
  BY DEF PairingInv, IdsInv
<1>4. last > life.decisions
  BY <1>0, <1>1, <1>3
<1>5. \A k \in DOMAIN orders : orders[k].decision \in DOMAIN decisions
  BY DEF ExecutorInv, OrdersInv, IsOrder
<1>6. AcceptedInv'
  BY <1>1, <1>2, <1>5 DEF PairingInv, AcceptedInv, Of, Issued
<1>7. AlgoInv'
  <2>1. ASSUME NEW id, Withdrew(id) PROVE Withdrew(id)'
    <3>1. PICK n \in DOMAIN decisions :
            /\ Rests(n) /\ decisions[n].id = id
            /\ decisions[n].placed >= 1
            /\ decisions[n].placed <= 1 =>
                 \A j : Of(j, n) => Conditional(orders[j].kind) /\ orders[j].state = "done"
      BY <2>1 DEF Withdrew
    <3>2. n \in DOMAIN decisions' /\ decisions'[n] = decisions[n]
      BY <1>1
    <3> QED
      BY <1>2, <3>1, <3>2 DEF Withdrew, Rests, Of
  <2> QED
    BY <1>2, <2>1 DEF PairingInv, AlgoInv
<1>8. PendingInv'
  <2>1. ASSUME NEW id \in DOMAIN pending, pending'[id] = pending[id]
        PROVE  LET n == pending'[id].decision
               IN /\ n \in DOMAIN decisions' /\ n > life'.decisions
                  /\ decisions'[n].id = id /\ decisions'[n].kind # "cancel"
                  /\ pending'[id].resting = (decisions'[n].kind # "market")
    BY <1>1, <1>2, <2>1 DEF PairingInv, PendingInv, Own
  <2>2. CASE d.kind = "cancel"
    BY <2>1, <2>2 DEF PendingInv, Own
  <2>3. CASE d.kind # "cancel"
    <3>1. pending' = With(pending, d.id, [decision |-> last, resting |-> d.kind # "market"])
      BY <1>1, <2>3 DEF Remember
    <3>2. /\ DOMAIN pending' = DOMAIN pending \cup {d.id}
          /\ pending'[d.id].decision = last
          /\ pending'[d.id].resting = (d.kind # "market")
          /\ \A id \in DOMAIN pending : id # d.id => pending'[id] = pending[id]
      BY <3>1 DEF With
    <3>3. /\ last \in DOMAIN decisions' /\ last > life'.decisions
          /\ decisions'[last].id = d.id /\ decisions'[last].kind = d.kind
      BY <1>1, <1>2, <1>4
    <3> QED
      BY <2>1, <2>3, <3>2, <3>3 DEF PendingInv, Own
  <2> QED
    BY <2>2, <2>3
<1>9. AwaitedInv'
  <2>1. ASSUME NEW n \in DOMAIN decisions, Awaited(n)'
        PROVE  decisions'[n].id \in DOMAIN pending'
    <3>1. decisions'[n] = decisions[n]
      BY <1>1
    <3>2. Awaited(n)
      BY <1>2, <2>1, <3>1 DEF Awaited, Own, Rests, Going, Of, Closing
    <3>3. decisions[n].id \in DOMAIN pending
      BY <3>2 DEF PairingInv, AwaitedInv
    <3> QED
      BY <3>1, <3>3 DEF Remember, With
  <2>2. ASSUME Awaited(last)' PROVE decisions'[last].id \in DOMAIN pending'
    <3>1. d.kind # "cancel"
      BY <1>1, <2>2 DEF Awaited, Rests
    <3> QED
      BY <1>1, <3>1 DEF Remember, With
  <2> QED
    BY <1>1, <2>1, <2>2 DEF AwaitedInv
<1>10. PairsInv'
  <2> SUFFICES ASSUME NEW t \in trades, t.own PROVE Paired(t)'
    BY <1>2 DEF PairsInv
  <2>1. Paired(t)
    BY DEF PairingInv, PairsInv
  <2>2. t.order \in DOMAIN orders /\ decisions'[orders[t.order].decision] = decisions[orders[t.order].decision]
    BY <1>1, <1>5, <2>1 DEF Paired
  <2> QED
    BY <1>2, <2>1, <2>2 DEF Paired, Rests
<1> QED
  BY <1>6, <1>7, <1>8, <1>9, <1>10 DEF PairingInv

(* The decision appended is d, the others stay. *)
Added(d) ==
  /\ Len(decisions') = Len(decisions) + 1
  /\ DOMAIN decisions' = DOMAIN decisions \cup {Len(decisions')}
  /\ Len(decisions') \notin DOMAIN decisions
  /\ Len(decisions') <= MaxDecisions
  /\ \A n \in DOMAIN decisions : decisions'[n] = decisions[n]
  /\ decisions'[Len(decisions')] = d

LEMMA DecideAdds ==
  ASSUME ExecutorInv, NEW d, NEW a, Decide(d, a)
  PROVE  Added(d) /\ Len(decisions) \in Nat /\ Len(decisions) < MaxDecisions /\ life' = life
<1>1. Sequence(decisions) /\ decisions' = Append(decisions, d) /\ Len(decisions) < MaxDecisions
      /\ life' = life
  BY DEF ExecutorInv, DecisionsInv, Decide
<1>2. /\ Len(decisions) \in Nat /\ DOMAIN decisions = 1..Len(decisions)
      /\ Len(decisions') = Len(decisions) + 1
      /\ DOMAIN decisions' = DOMAIN decisions \cup {Len(decisions) + 1}
      /\ \A n \in DOMAIN decisions : n # Len(decisions) + 1 /\ decisions'[n] = decisions[n]
      /\ decisions'[Len(decisions) + 1] = d
  BY <1>1, AppendSequence
<1> QED
  BY <1>1, <1>2, ActionAssumption DEF Added

(* A decision added with an id that no other order has. *)
LEMMA AddedIds ==
  ASSUME IdsInv, NEW d, Added(d), Len(decisions) \in Nat, life' = life,
         seq' \in Nat, seq <= seq', seq' <= Len(decisions) + 1,
         d.kind \in {"market", "limit", "stop", "cancel"},
         d.kind \in {"limit", "stop"} =>
           /\ d.id \in Ids
           /\ \A n \in DOMAIN decisions : decisions[n].kind # "cancel" => decisions[n].id # d.id,
         d.kind = "market" =>
           /\ d.id \in ToSet(MarketIds) /\ (\E i \in 1..seq' : d.id = MarketIds[i])
           /\ \A n \in DOMAIN decisions : Rests(n) \/ IsMarket(n) => decisions[n].id # d.id
  PROVE  IdsInv'
<1>1. PICK last : last = Len(decisions')
  OBVIOUS
<1>2. /\ DOMAIN decisions' = DOMAIN decisions \cup {last} /\ last \notin DOMAIN decisions
      /\ \A n \in DOMAIN decisions : decisions'[n] = decisions[n]
      /\ decisions'[last] = d
      /\ last = Len(decisions) + 1 /\ last <= MaxDecisions
  BY <1>1 DEF Added
<1>3. /\ life'.decisions \in Nat /\ life'.decisions <= last
      /\ seq' \in Nat /\ seq' <= last
  BY <1>2 DEF IdsInv
<1>4. \A n \in DOMAIN decisions :
        /\ Rests(n)' <=> Rests(n)
        /\ IsMarket(n)' <=> IsMarket(n)
  BY <1>2 DEF Rests, IsMarket, Own
<1>5. /\ Rests(last)' <=> d.kind \in {"limit", "stop"}
      /\ IsMarket(last)' => d.kind = "market"
  BY <1>2 DEF Rests, IsMarket
<1>6. ASSUME NEW n \in DOMAIN decisions'
      PROVE  /\ decisions'[n].kind \in {"market", "limit", "stop", "cancel"}
             /\ Rests(n)' => decisions'[n].id \in Ids
             /\ decisions'[n].kind = "market" => decisions'[n].id \in ToSet(MarketIds)
             /\ IsMarket(n)' => \E i \in 1..seq' : decisions'[n].id = MarketIds[i]
  <2>1. CASE n \in DOMAIN decisions
    <3>1. IsMarket(n) => \E i \in 1..seq : decisions[n].id = MarketIds[i]
      BY <2>1 DEF IdsInv
    <3>2. 1..seq \subseteq 1..seq'
      BY DEF IdsInv
    <3>3. /\ decisions[n].kind \in {"market", "limit", "stop", "cancel"}
          /\ Rests(n) => decisions[n].id \in Ids
          /\ decisions[n].kind = "market" => decisions[n].id \in ToSet(MarketIds)
      BY <2>1 DEF IdsInv
    <3> QED
      BY <1>2, <1>4, <2>1, <3>1, <3>2, <3>3
  <2>2. CASE n = last
    BY <1>2, <1>5, <2>2
  <2> QED
    BY <1>2, <2>1, <2>2
<1>7. ASSUME NEW n \in DOMAIN decisions', NEW p \in DOMAIN decisions',
             Rests(n)', decisions'[p].kind # "cancel", decisions'[n].id = decisions'[p].id
      PROVE  n = p
  <2>1. CASE n \in DOMAIN decisions /\ p \in DOMAIN decisions
    BY <1>2, <1>4, <1>7, <2>1 DEF IdsInv
  <2>2. CASE n \in DOMAIN decisions /\ p = last
    BY <1>2, <1>4, <1>7, <2>2 DEF Rests
  <2>3. CASE n = last /\ p \in DOMAIN decisions
    BY <1>2, <1>5, <1>7, <2>3
  <2> QED
    BY <1>2, <2>1, <2>2, <2>3
<1>8. ASSUME NEW n \in DOMAIN decisions', NEW p \in DOMAIN decisions',
             IsMarket(n)', IsMarket(p)', decisions'[n].id = decisions'[p].id
      PROVE  n = p
  <2>1. CASE n \in DOMAIN decisions /\ p \in DOMAIN decisions
    BY <1>2, <1>4, <1>8, <2>1 DEF IdsInv
  <2>2. CASE n \in DOMAIN decisions /\ p = last
    BY <1>2, <1>4, <1>5, <1>8, <2>2
  <2>3. CASE n = last /\ p \in DOMAIN decisions
    BY <1>2, <1>4, <1>5, <1>8, <2>3
  <2> QED
    BY <1>2, <2>1, <2>2, <2>3
<1> QED
  BY <1>1, <1>2, <1>3, <1>6, <1>7, <1>8 DEF IdsInv

LEMMA SubmitKeepsPairing ==
  ASSUME ExecutorInv, PairingInv, Submit
  PROVE  PairingInv'
<1>1. IdsInv /\ seq \in Nat /\ seq <= Len(decisions)
  BY DEF PairingInv, IdsInv
<1>2. ASSUME NEW quantity \in Quantities, SubmitMarket(quantity) PROVE PairingInv'
  <2> DEFINE d == [kind |-> "market", id |-> NextId, closing |-> PureReduction(quantity),
                   placed |-> 0]
             a == [id |-> NextId, kind |-> "market", quantity |-> quantity,
                   reduce |-> SentReduceOnly(quantity)]
  <2>1. /\ Decide(d, a) /\ UNCHANGED exchange /\ Remember(d.id, FALSE)
        /\ d.kind = "market" /\ d.placed = 0 /\ d.id = MarketIds[seq + 1]
        /\ seq' = seq + 1
    BY <1>2 DEF SubmitMarket, Decide, NextId
  <2> HIDE DEF d, a
  <2>2. Added(d) /\ Len(decisions) \in Nat /\ Len(decisions) < MaxDecisions /\ life' = life
    BY <2>1, DecideAdds
  <2>3. seq + 1 \in 1..MaxDecisions
    BY <1>1, <2>2, ActionAssumption
  <2>4. /\ seq + 1 \in DOMAIN MarketIds /\ d.id \in ToSet(MarketIds)
        /\ \A i \in 1..seq : i \in DOMAIN MarketIds /\ i # seq + 1
    <3>1. \A i \in 1..seq : i \in 1..MaxDecisions /\ i # seq + 1
      BY <1>1, <2>3, ActionAssumption
    <3> QED
      BY <2>1, <2>3, <3>1, ActionAssumption DEF ToSet
  <2>5. ASSUME NEW n \in DOMAIN decisions, IsMarket(n) PROVE decisions[n].id # d.id
    <3>1. PICK i \in 1..seq : decisions[n].id = MarketIds[i]
      BY <1>1, <2>5 DEF IdsInv
    <3> QED
      BY <2>1, <2>4, <3>1, ActionAssumption DEF IsInjective
  <2>6. ASSUME NEW n \in DOMAIN decisions, Rests(n) PROVE decisions[n].id # d.id
    <3>1. decisions[n].id \in Ids
      BY <1>1, <2>6 DEF IdsInv
    <3> QED
      BY <2>4, <3>1, ActionAssumption DEF Ids
  <2>7. \E i \in 1..seq' : d.id = MarketIds[i]
    BY <1>1, <2>1
  <2>8. IdsInv'
    BY <1>1, <2>1, <2>2, <2>4, <2>5, <2>6, <2>7, AddedIds
  <2> QED
    BY <2>1, <2>8, SubmittedKeepsPairing
<1>3. ASSUME NEW a \in Resting, SubmitResting(a) PROVE PairingInv'
  <2> DEFINE d == [kind |-> a.kind, id |-> a.id, closing |-> FALSE, placed |-> 0]
  <2>1. /\ Decide(d, a) /\ UNCHANGED exchange /\ Remember(d.id, TRUE)
        /\ d.kind = a.kind /\ d.placed = 0 /\ d.id = a.id /\ seq' = seq
        /\ \A n \in DOMAIN decisions : decisions[n].id # a.id \/ decisions[n].kind = "cancel"
    BY <1>3 DEF SubmitResting, Decide
  <2>2. d.kind \in {"limit", "stop"} /\ d.id \in Ids
    BY <2>1, ActionAssumption DEF Ids
  <2> HIDE DEF d
  <2>3. Added(d) /\ Len(decisions) \in Nat /\ life' = life
    BY <2>1, DecideAdds
  <2>4. IdsInv'
    BY <1>1, <2>1, <2>2, <2>3, AddedIds
  <2> QED
    BY <2>1, <2>2, <2>4, SubmittedKeepsPairing
<1>4. ASSUME NEW id, SubmitCancel(id) PROVE PairingInv'
  <2> DEFINE d == [kind |-> "cancel", id |-> id, closing |-> FALSE, placed |-> 0]
  <2>1. /\ \E a : Decide(d, a)
        /\ UNCHANGED exchange /\ pending' = pending
        /\ d.kind = "cancel" /\ d.placed = 0 /\ seq' = seq
    BY <1>4 DEF SubmitCancel, Decide
  <2> HIDE DEF d
  <2>2. PICK a : Decide(d, a)
    BY <2>1
  <2>3. Added(d) /\ Len(decisions) \in Nat /\ life' = life
    BY <2>2, DecideAdds
  <2>4. IdsInv'
    BY <1>1, <2>1, <2>3, AddedIds
  <2> QED
    BY <2>1, <2>2, <2>4, SubmittedKeepsPairing
<1> QED
  BY <1>2, <1>3, <1>4 DEF Submit

(***************************************************************************)
(* The process restarts, and the user socket is lost.                      *)
(***************************************************************************)
LEMMA RestartKeepsPairing ==
  ASSUME ExecutorInv, PairingInv, Restart
  PROVE  PairingInv'
<1>1. /\ UNCHANGED <<orders, decisions>>
      /\ pending' = <<>> /\ trades' = {} /\ seq' = 0 /\ algoStream' = <<>>
      /\ life'.decisions = Len(decisions)
  BY DEF Restart, ExecutorInv, LifeInv
<1>2. Len(decisions) \in Nat /\ DOMAIN decisions = 1..Len(decisions)
  <2>1. \A n \in DOMAIN decisions : decisions[n] \in {decisions[p] : p \in DOMAIN decisions}
    OBVIOUS
  <2> QED
    BY <2>1, SequenceIn DEF ExecutorInv, DecisionsInv
<1>3. \A n \in DOMAIN decisions : ~Own(n)'
  BY <1>1, <1>2 DEF Own
<1>4. IdsInv'
  <2>1. /\ life'.decisions \in Nat /\ life'.decisions <= Len(decisions')
        /\ seq' \in Nat /\ seq' <= Len(decisions')
    BY <1>1, <1>2
  <2> QED
    BY <1>1, <1>3, <2>1 DEF PairingInv, IdsInv, Rests, IsMarket
<1>5. PendingInv'
  BY <1>1, EmptySequence DEF PendingInv
<1>6. AcceptedInv'
  BY <1>1 DEF PairingInv, AcceptedInv, Of, Issued
<1>7. AlgoInv'
  BY <1>1, EmptySequence DEF AlgoInv
<1>8. AwaitedInv' /\ PairsInv'
  BY <1>1, <1>3 DEF AwaitedInv, Awaited, PairsInv
<1> QED
  BY <1>4, <1>5, <1>6, <1>7, <1>8 DEF PairingInv

LEMMA DropKeepsPairing ==
  ASSUME PairingInv, Drop, UNCHANGED <<decisions, seq, pending, trades>>,
         life'.decisions = life.decisions
  PROVE  PairingInv'
<1>1. orders' = orders /\ stream' = <<>> /\ algoStream' = <<>>
  BY DEF Drop
<1>2. AlgoInv'
  BY <1>1, EmptySequence DEF AlgoInv
<1>3. PendingInv' /\ PairsInv'
  BY <1>1 DEF PairingInv, PendingInv, Own, PairsInv, Paired, Rests
<1>4. \A n : Awaited(n)' => Awaited(n)
  <2>1. \A k : ~Closing(k)'
    BY <1>1, EmptySequence DEF Closing
  <2> QED
    BY <1>1, <2>1 DEF Awaited, Own, Rests, Going, Of
<1>5. AwaitedInv'
  BY <1>1, <1>4 DEF PairingInv, AwaitedInv
<1> QED
  BY <1>1, <1>2, <1>3, <1>5, SameKeepsPairing

(***************************************************************************)
(* The user data stream: a decision is forgotten with the message that     *)
(* ends its order, and not before.                                         *)
(***************************************************************************)
LEMMA ReceivedGoing ==
  ASSUME MessagesInv, NEW n,
         orders' = orders, Received \/ stream' = stream
  PROVE  /\ Going(n)' => Going(n)
         /\ \A k \in DOMAIN orders : Closing(k)' => Closing(k)
<1>1. ASSUME NEW k, Closing(k)' PROVE Closing(k)
  <2>1. CASE stream' = stream
    BY <1>1, <2>1 DEF Closing
  <2>2. CASE Received
    <3>1. PICK i \in DOMAIN stream' : Tells(stream'[i], k) /\ Ends(stream'[i])
      BY <1>1 DEF Closing, Tells, Ends
    <3>2. i + 1 \in DOMAIN stream /\ stream'[i] = stream[i + 1]
      BY <2>2, <3>1, ReceivedStream
    <3> QED
      BY <3>1, <3>2 DEF Closing
  <2> QED
    BY <2>1, <2>2
<1> QED
  BY <1>1 DEF Going, Of

LEMMA AwaitedLess ==
  ASSUME MessagesInv, UNCHANGED <<orders, decisions, life>>,
         Received \/ stream' = stream, NEW n, Awaited(n)'
  PROVE  Awaited(n) /\ Own(n) /\ Rests(n) /\ decisions[n].placed <= 1
         /\ (decisions[n].placed = 0 \/ Going(n)')
<1>1. Going(n)' => Going(n)
  BY ReceivedGoing
<1> QED
  BY <1>1 DEF Awaited, Own, Rests

(* A message that leaves the decisions remembered, or forgets one whose    *)
(* order has ended.                                                        *)
Forgets(id) ==
  /\ pending' = Without(pending, {id})
  /\ \A n \in DOMAIN decisions :
       Rests(n) /\ decisions[n].id = id /\ decisions[n].placed <= 1 =>
         decisions[n].placed # 0 /\ ~Going(n)'

LEMMA ForgettingKeepsPairing ==
  ASSUME MessagesInv, PairingInv, UNCHANGED <<orders, decisions, seq, life>>,
         \/ algoStream' = algoStream /\ Received
         \/ stream' = stream /\ algoStream # <<>> /\ algoStream' = Tail(algoStream),
         pending' = pending \/ \E id : Forgets(id),
         PairsInv'
  PROVE  PairingInv'
<1>1. /\ \A x \in DOMAIN pending' : x \in DOMAIN pending /\ pending'[x] = pending[x]
      /\ \A x \in DOMAIN pending : x \in DOMAIN pending' \/ Forgets(x)
  BY DEF Without, Forgets
<1>2. PendingInv'
  BY <1>1 DEF PairingInv, PendingInv, Own
<1>3. AwaitedInv'
  <2> SUFFICES ASSUME NEW n \in DOMAIN decisions, Awaited(n)'
               PROVE  decisions[n].id \in DOMAIN pending'
    BY DEF AwaitedInv
  <2>1. /\ Awaited(n) /\ Rests(n) /\ decisions[n].placed <= 1
        /\ decisions[n].placed = 0 \/ Going(n)'
    BY AwaitedLess
  <2>2. decisions[n].id \in DOMAIN pending
    BY <2>1 DEF PairingInv, AwaitedInv
  <2>3. ~Forgets(decisions[n].id)
    BY <2>1 DEF Forgets
  <2> QED
    BY <1>1, <2>2, <2>3
<1>4. AlgoInv'
  <2>1. \A x : Withdrew(x) => Withdrew(x)'
    BY DEF Withdrew, Rests, Of
  <2>2. Sequence(algoStream) /\ \A i \in DOMAIN algoStream :
          algoStream[i].state \in Unfilled => Withdrew(algoStream[i].id)
    BY DEF PairingInv, AlgoInv
  <2>3. CASE algoStream' = algoStream
    BY <2>1, <2>2, <2>3 DEF AlgoInv
  <2>4. CASE algoStream # <<>> /\ algoStream' = Tail(algoStream)
    <3> DEFINE s == algoStream
    <3>1. /\ Sequence(Tail(s))
          /\ \A i \in DOMAIN Tail(s) : i + 1 \in DOMAIN s /\ Tail(s)[i] = s[i + 1]
      <4>1. Sequence(s) /\ s # <<>>
        BY <2>2, <2>4
      <4> HIDE DEF s
      <4> QED
        BY <4>1, TailSequence
    <3>2. \A i \in DOMAIN algoStream' : \E j \in DOMAIN algoStream : algoStream'[i] = algoStream[j]
      BY <2>4, <3>1
    <3>3. \A i \in DOMAIN algoStream' : \A x :
            x = algoStream'[i].id /\ algoStream'[i].state \in Unfilled => Withdrew(x)'
      BY <2>1, <2>2, <3>2
    <3>4. Sequence(algoStream')
      BY <2>4, <3>1
    <3> QED
      BY <3>3, <3>4 DEF AlgoInv
  <2> QED
    BY <2>3, <2>4
<1> QED
  BY <1>2, <1>3, <1>4, SameKeepsPairing

(* When the message that ends an order was received, nothing of a resting  *)
(* decision with its id, accepted once, is going on.                       *)
LEMMA EndForgets ==
  ASSUME ExecutorInv, MessagesInv, PairingInv, Received,
         UNCHANGED <<orders, decisions, life>>,
         Head(stream).type = "order", Ends(Head(stream)),
         NEW n \in DOMAIN decisions, Rests(n), decisions[n].id = Head(stream).id,
         decisions[n].placed <= 1
  PROVE  decisions[n].placed # 0 /\ ~Going(n)'
<1>1. IsMessage(Head(stream), orders)
  BY ReceivedStream
<1>2. PICK k : k = Head(stream).order
  OBVIOUS
<1>3. /\ k \in DOMAIN orders /\ orders[k].id = decisions[n].id
      /\ ~Conditional(orders[k].kind) /\ orders[k].state = "done"
      /\ Tells(Head(stream), k)
  BY <1>1, <1>2 DEF IsMessage, Tells
<1>4. /\ orders[k].decision \in DOMAIN decisions
      /\ decisions[orders[k].decision].id = orders[k].id
      /\ decisions[orders[k].decision].kind # "cancel"
  BY <1>3 DEF ExecutorInv, OrdersInv, IsOrder
<1>5. orders[k].decision = n
  BY <1>3, <1>4 DEF PairingInv, IdsInv
<1>6. decisions[n].placed >= 1
  BY <1>3, <1>5 DEF PairingInv, AcceptedInv
<1>7. Quiet(k)'
  BY <1>3, ReceivedMessages
<1>8. ASSUME NEW j \in DOMAIN orders, orders[j].decision = n
      PROVE  ~(orders[j].state = "open" \/ Closing(j)')
  <2>1. CASE j = k
    <3>1. ~Closing(k)'
      BY <1>7 DEF Closing, Quiet
    <3> QED
      BY <1>3, <2>1, <3>1
  <2>2. CASE j # k
    <3>1. Issued(k, j) \/ Issued(j, k)
      BY <1>3, <1>5, <1>8, <2>2 DEF PairingInv, AcceptedInv, Of
    <3>2. Conditional(orders[j].kind) /\ orders[j].state = "done"
      BY <1>3, <3>1 DEF Issued
    <3>3. ~Closing(j)
      BY <3>2 DEF Closing, MessagesInv, IsMessage, Tells
    <3>4. ~Closing(j)'
      BY <3>3, ReceivedGoing
    <3> QED
      BY <3>2, <3>4
  <2> QED
    BY <2>1, <2>2
<1> QED
  BY <1>6, <1>8 DEF Going, Of

LEMMA AlgoEndForgets ==
  ASSUME MessagesInv, PairingInv, stream' = stream,
         UNCHANGED <<orders, decisions, life>>,
         algoStream # <<>>, Head(algoStream).state \in Unfilled,
         NEW n \in DOMAIN decisions, Rests(n), decisions[n].id = Head(algoStream).id,
         decisions[n].placed <= 1
  PROVE  decisions[n].placed # 0 /\ ~Going(n)'
<1>1. Withdrew(Head(algoStream).id)
  <2> DEFINE s == algoStream
  <2>1. Sequence(s) /\ s # <<>>
    BY DEF PairingInv, AlgoInv
  <2>2. 1 \in DOMAIN s /\ Head(s) = s[1]
    <3> HIDE DEF s
    <3> QED
      BY <2>1, TailSequence
  <2> QED
    BY <2>2 DEF PairingInv, AlgoInv
<1>2. PICK p \in DOMAIN decisions :
        /\ Rests(p) /\ decisions[p].id = decisions[n].id
        /\ decisions[p].placed >= 1
        /\ decisions[p].placed <= 1 =>
             \A j : Of(j, p) => Conditional(orders[j].kind) /\ orders[j].state = "done"
  BY <1>1 DEF Withdrew
<1>3. p = n
  BY <1>2 DEF PairingInv, IdsInv, Rests
<1>4. ASSUME NEW j \in DOMAIN orders, orders[j].decision = n
      PROVE  ~(orders[j].state = "open" \/ Closing(j)')
  <2>1. Conditional(orders[j].kind) /\ orders[j].state = "done"
    BY <1>2, <1>3, <1>4 DEF Of
  <2>2. ~Closing(j)
    BY <2>1 DEF Closing, MessagesInv, IsMessage, Tells
  <2> QED
    BY <2>1, <2>2 DEF Closing
<1> QED
  BY <1>2, <1>3, <1>4 DEF Going, Of

(* The Trade a last message ends in. *)
LEMMA EmittedPair ==
  ASSUME ExecutorInv, MessagesInv, PairingInv, Received,
         UNCHANGED <<orders, decisions, life>>,
         Head(stream).type = "order", Ends(Head(stream)), EmitFill(Head(stream))
  PROVE  PairsInv'
<1>1. IsMessage(Head(stream), orders) /\ 1 \in DOMAIN stream /\ Head(stream) = stream[1]
  BY ReceivedStream
<1>2. PICK k : k = Head(stream).order
  OBVIOUS
<1>3. /\ k \in DOMAIN orders /\ orders[k].id = Head(stream).id
      /\ ~Conditional(orders[k].kind) /\ Closing(k)
  BY <1>1, <1>2 DEF IsMessage, Closing, Tells
<1>4. PICK n : n = orders[k].decision
  OBVIOUS
<1>5. /\ n \in DOMAIN decisions /\ decisions[n].id = Head(stream).id
      /\ decisions[n].kind # "cancel"
  BY <1>3, <1>4 DEF ExecutorInv, OrdersInv, IsOrder
<1> DEFINE trade ==
      [order |-> Head(stream).order, quantity |-> Head(stream).executed,
       paid |-> Paid(Head(stream)),
       own |-> orders[Head(stream).order].decision > life.decisions, whole |-> ~missed,
       decision |-> IF Head(stream).id \in DOMAIN pending
                    THEN pending[Head(stream).id].decision ELSE None]
<1>6. /\ trades' = trades \cup {trade}
       /\ trade.order = k /\ trade.own = (orders[k].decision > life.decisions)
       /\ trade.decision = IF Head(stream).id \in DOMAIN pending
                           THEN pending[Head(stream).id].decision ELSE None
  BY <1>2 DEF EmitFill
<1> HIDE DEF trade
<1>7. PICK t :
        /\ trades' = trades \cup {t}
        /\ t.order = k /\ t.own = (orders[k].decision > life.decisions)
        /\ t.decision = IF Head(stream).id \in DOMAIN pending
                        THEN pending[Head(stream).id].decision ELSE None
  BY <1>6
<1>8. ASSUME t.own PROVE Paired(t)'
  <2>1. Own(n)
    BY <1>4, <1>7, <1>8 DEF Own
  <2>2. ASSUME Head(stream).id \in DOMAIN pending PROVE t.decision = n
    <3>1. PICK p : p = t.decision
      OBVIOUS
    <3>2. /\ p \in DOMAIN decisions /\ Own(p) /\ decisions[p].id = decisions[n].id
          /\ decisions[p].kind # "cancel"
      BY <1>5, <1>7, <2>2, <3>1 DEF PairingInv, PendingInv
    <3>3. decisions[n].kind \in {"market", "limit", "stop", "cancel"}
          /\ decisions[p].kind \in {"market", "limit", "stop", "cancel"}
      BY <1>5, <3>2 DEF PairingInv, IdsInv
    <3>4. CASE Rests(n)
      BY <1>5, <3>1, <3>2, <3>4 DEF PairingInv, IdsInv
    <3>5. CASE Rests(p)
      BY <1>5, <3>1, <3>2, <3>5 DEF PairingInv, IdsInv
    <3>6. CASE IsMarket(n) /\ IsMarket(p)
      BY <1>5, <3>1, <3>2, <3>6 DEF PairingInv, IdsInv
    <3> QED
      BY <1>5, <2>1, <3>2, <3>3, <3>4, <3>5, <3>6 DEF Rests, IsMarket
  <2>3. t.decision \in {None, n}
    BY <1>7, <2>2
  <2>4. ASSUME Rests(n), decisions[n].placed <= 1 PROVE t.decision = n
    <3>1. Going(n)
      BY <1>3, <1>4 DEF Going, Of
    <3>2. decisions[n].id \in DOMAIN pending
      BY <1>5, <2>1, <2>4, <3>1 DEF PairingInv, AwaitedInv, Awaited
    <3> QED
      BY <1>5, <2>2, <3>2
  <2> QED
    BY <1>3, <1>4, <1>7, <2>3, <2>4 DEF Paired, Rests
<1>9. \A u \in trades : u.own => Paired(u)'
  BY DEF PairingInv, PairsInv, Paired, Rests
<1> QED
  BY <1>7, <1>8, <1>9 DEF PairsInv

LEMMA UserDataKeepsPairing ==
  ASSUME ExecutorInv, RecordInv, PairingInv, OnUserData
  PROVE  PairingInv'
<1>1. UNCHANGED <<orders, decisions, seq, life>> /\ MessagesInv
  BY DEF OnUserData, history, RecordInv
<1>2. trades' = trades => PairsInv'
  BY <1>1 DEF PairingInv, PairsInv, Paired, Rests
<1>3. CASE /\ stream # <<>> /\ ProcessAccountUpdate(Head(stream))
           /\ stream' = Tail(stream) /\ UNCHANGED algoStream
  <2>1. Received /\ pending' = pending /\ trades' = trades
    BY <1>1, <1>3 DEF Received, ProcessAccountUpdate, pairing
  <2> QED
    BY <1>1, <1>2, <1>3, <2>1, ForgettingKeepsPairing
<1>4. CASE /\ stream # <<>> /\ ProcessOrderTradeUpdate(Head(stream))
           /\ stream' = Tail(stream) /\ UNCHANGED algoStream
  <2>1. Received /\ Head(stream).type = "order"
    BY <1>1, <1>4 DEF Received, ProcessOrderTradeUpdate
  <2>2. CASE pending' = pending /\ trades' = trades
    BY <1>1, <1>2, <1>4, <2>1, <2>2, ForgettingKeepsPairing
  <2>3. CASE /\ Ends(Head(stream)) /\ pending' = Without(pending, {Head(stream).id})
             /\ IF Head(stream).executed # 0 THEN EmitFill(Head(stream)) ELSE UNCHANGED trades
    <3>1. PairsInv'
      BY <1>1, <1>2, <2>1, <2>3, EmittedPair
    <3>2. \A n \in DOMAIN decisions :
            Rests(n) /\ decisions[n].id = Head(stream).id /\ decisions[n].placed <= 1 =>
              decisions[n].placed # 0 /\ ~Going(n)'
      BY <1>1, <2>1, <2>3, EndForgets
    <3>3. Forgets(Head(stream).id)
      BY <2>3, <3>2 DEF Forgets
    <3> QED
      BY <1>1, <1>4, <2>1, <3>1, <3>3, ForgettingKeepsPairing
  <2> QED
    BY <1>4, <2>2, <2>3 DEF ProcessOrderTradeUpdate, Ends, pairing
<1>5. CASE /\ algoStream # <<>> /\ ProcessAlgoUpdate(Head(algoStream))
           /\ algoStream' = Tail(algoStream) /\ UNCHANGED stream
  <2>1. /\ trades' = trades
        /\ \/ pending' = pending
           \/ /\ Head(algoStream).state \in Unfilled
              /\ pending' = Without(pending, {Head(algoStream).id})
    BY <1>5 DEF ProcessAlgoUpdate
  <2>2. CASE pending' = pending
    BY <1>1, <1>2, <1>5, <2>1, <2>2, ForgettingKeepsPairing
  <2>3. CASE /\ Head(algoStream).state \in Unfilled
             /\ pending' = Without(pending, {Head(algoStream).id})
    <3>1. \A n \in DOMAIN decisions :
            Rests(n) /\ decisions[n].id = Head(algoStream).id /\ decisions[n].placed <= 1 =>
              decisions[n].placed # 0 /\ ~Going(n)'
      BY <1>1, <1>5, <2>3, AlgoEndForgets
    <3>2. Forgets(Head(algoStream).id)
      BY <2>3, <3>1 DEF Forgets
    <3> QED
      BY <1>1, <1>2, <1>5, <2>1, <3>2, ForgettingKeepsPairing
  <2> QED
    BY <2>1, <2>2, <2>3
<1> QED
  BY <1>3, <1>4, <1>5 DEF OnUserData

LEMMA InitPairing == Init => PairingInv
<1> SUFFICES ASSUME Init PROVE PairingInv
  OBVIOUS
<1>1. /\ decisions = <<>> /\ orders = <<>> /\ pending = <<>> /\ trades = {}
      /\ algoStream = <<>> /\ seq = 0 /\ life.decisions = 0
  BY DEF Init, ExchangeInit
<1>2. IdsInv
  BY <1>1, EmptySequence, ActionAssumption DEF IdsInv
<1>3. PendingInv /\ AcceptedInv /\ AlgoInv /\ AwaitedInv /\ PairsInv
  BY <1>1, EmptySequence DEF PendingInv, AcceptedInv, AlgoInv, AwaitedInv, PairsInv
<1> QED
  BY <1>2, <1>3 DEF PairingInv

LEMMA NextPairing ==
  ASSUME ExecutorInv, ExecutorInv', RecordInv, PairingInv, [Next]_vars
  PROVE  PairingInv'
<1>1. CASE BeginEvent
  BY <1>1, BeginEventKeepsPairing
<1>2. CASE Submit
  BY <1>2, SubmitKeepsPairing
<1>3. CASE Work
  BY <1>3, WorkKeepsPairing
<1>4. CASE \E i \in DOMAIN requests : TimeOut(i)
  <2>1. /\ UNCHANGED <<orders, decisions, seq, stream, algoStream, pending, trades>>
        /\ life' = [life EXCEPT !.timeouts = @ + 1]
    BY <1>4 DEF TimeOut, exchange, pairing
  <2>2. life'.decisions = life.decisions
    BY <2>1 DEF ExecutorInv, LifeInv
  <2> QED
    BY <2>1, <2>2, PairingUntouched
<1>5. CASE OnUserData
  BY <1>5, UserDataKeepsPairing
<1>6. CASE Restart
  BY <1>6, RestartKeepsPairing
<1>7. CASE Market /\ UNCHANGED Executor
  BY <1>7, MarketKeepsPairing
<1>8. CASE Connect /\ UNCHANGED Executor
  BY <1>8, PairingUntouched DEF Connect, Executor, pairing, history
<1>9. CASE /\ MayFail /\ Drop
           /\ life' = [life EXCEPT !.drops = @ + 1]
           /\ UNCHANGED <<account, pairing, seq, requests, reported, decisions, obeyed>>
  <2>1. life'.decisions = life.decisions
    BY <1>9 DEF ExecutorInv, LifeInv
  <2> QED
    BY <1>9, <2>1, DropKeepsPairing DEF pairing
<1>10. CASE UNCHANGED vars
  BY <1>10, PairingUntouched DEF vars, exchange, pairing, history
<1> QED
  BY <1>1, <1>2, <1>3, <1>4, <1>5, <1>6, <1>7, <1>8, <1>9, <1>10 DEF Next

(* A fill is paired with the decision its order was sent for or with none, *)
(* and with its own whenever that was a resting order accepted once,       *)
(* however often the requests were tried, in whatever order the two kinds  *)
(* of message come and whatever a previous process left behind             *)
(* (_pending_decision in _process_order_trade_update and _emit_fill).      *)
THEOREM FillsArePairedExactly == Spec => []PairedExactly
<1>1. Init => RecordInv /\ PairingInv
  BY InitRecords, InitPairing
<1>2. ExecutorInv /\ ExecutorInv' /\ RecordInv /\ PairingInv /\ [Next]_vars =>
        RecordInv' /\ PairingInv'
  BY NextRecords, NextPairing
<1>3. ExecutorInv /\ PairingInv => PairedExactly
  <2> SUFFICES ASSUME ExecutorInv, PairingInv, NEW t \in trades, t.own
               PROVE  /\ t.decision \in {None, DecisionOf(t)}
                      /\ LET d == decisions[DecisionOf(t)]
                         IN d.kind # "market" /\ d.placed = 1 => t.decision = DecisionOf(t)
    BY DEF PairedExactly, OwnTrades
  <2>1. PICK n : n = DecisionOf(t)
    OBVIOUS
  <2>2. /\ t.order \in DOMAIN orders /\ t.decision \in {None, n}
        /\ Rests(n) /\ decisions[n].placed <= 1 => t.decision = n
    BY <2>1 DEF PairingInv, PairsInv, Paired, DecisionOf
  <2>3. n \in DOMAIN decisions /\ decisions[n].kind # "cancel"
    BY <2>1, <2>2 DEF ExecutorInv, OrdersInv, IsOrder, DecisionOf
  <2>4. decisions[n].kind # "market" => Rests(n)
    BY <2>3 DEF PairingInv, IdsInv, Rests
  <2> QED
    BY <2>1, <2>2, <2>4
<1> QED
  BY <1>1, <1>2, <1>3, ExecutorInvariant, PTL DEF Spec

-----------------------------------------------------------------------------
(***************************************************************************)
(* At rest the strategy sees the account as it is.  The invariant says     *)
(* what the messages under way will do to the local copy: the last one     *)
(* about the account carries the position, an open order is listed or its  *)
(* NEW is under way, and nothing that removes it; an order that is gone is *)
(* not listed or will be removed after everything that could list it.      *)
(***************************************************************************)

Adds(m, id) == m.type = "order" /\ m.id = id /\ m.state = Ack /\ m.kind = "limit"
Removes(m, id) == m.type = "order" /\ m.id = id /\ m.state \in Terminal
AlgoAdds(m, id) == m.id = id /\ m.state = Ack
AlgoRemoves(m, id) == m.id = id /\ m.state \in Gone

PositionInv == ~missed =>
  /\ (\A i \in DOMAIN stream : stream[i].type # "account") => position = xposition
  /\ \A i \in DOMAIN stream :
       /\ stream[i].type = "account"
       /\ \A j \in DOMAIN stream : i < j => stream[j].type # "account"
       => stream[i].position = xposition

(* Messages, the book and the hint of a cancel name a kind, the one that   *)
(* the decision with this id has.                                          *)
IsOf(id, kind) == \E n \in DOMAIN decisions :
  Rests(n) /\ decisions[n].id = id /\ decisions[n].kind = kind

NewsInv ==
  /\ \A i \in DOMAIN stream :
       stream[i].type = "order" => stream[i].kind = orders[stream[i].order].kind
  /\ \A i \in DOMAIN algoStream :
       \E k \in DOMAIN orders : orders[k].id = algoStream[i].id /\ orders[k].kind = "stop"
BookInv == \A o \in book : IsOf(o[1], o[2])
HintsInv ==
  \A i \in DOMAIN requests :
    LET a == requests[i].action
    IN a.kind = "cancel" /\ a.id # All =>
         /\ a.hint = "algo" => IsOf(a.id, "stop")
         /\ a.hint = "regular" => IsOf(a.id, "limit")

(* A cancel of this id that is under way or known to have failed.          *)
Asked(n) == \E i \in DOMAIN requests : requests[i].decision = n
Cancels(n, id) == decisions[n].kind = "cancel" /\ decisions[n].id \in {id, All}
CancelTold(id) ==
  \E n \in DOMAIN decisions : Cancels(n, id) /\ (n \in reported \/ Asked(n))

NotAdded(id) == \A i \in DOMAIN stream : ~Adds(stream[i], id)
NotAlgoAdded(id) == \A i \in DOMAIN algoStream : ~AlgoAdds(algoStream[i], id)

Shown(id) ==
  /\ \A i \in DOMAIN stream : ~Removes(stream[i], id)
  /\ \A i \in DOMAIN algoStream : ~AlgoRemoves(algoStream[i], id)
  /\ Listed(id) \/ CancelTold(id) \/ ~NotAdded(id) \/ ~NotAlgoAdded(id)

RemovedLast(id) ==
  \E i \in DOMAIN stream : /\ Removes(stream[i], id)
                           /\ \A j \in DOMAIN stream : Adds(stream[j], id) => j < i
AlgoRemovedLast(id) ==
  \E i \in DOMAIN algoStream :
    /\ AlgoRemoves(algoStream[i], id)
    /\ \A j \in DOMAIN algoStream : AlgoAdds(algoStream[j], id) => j < i
Hidden(id) ==
  \/ ~Listed(id) /\ NotAdded(id) /\ NotAlgoAdded(id)
  \/ NotAlgoAdded(id) /\ RemovedLast(id)
  \/ NotAdded(id) /\ AlgoRemovedLast(id)

Mirrored(id) == IF OnExchange(id) THEN Shown(id) ELSE Hidden(id)
ListingInv == ~missed => \A id \in Ids : AcceptedOnce(id) => Mirrored(id)

MirrorInv == PositionInv /\ NewsInv /\ BookInv /\ HintsInv /\ ListingInv

-----------------------------------------------------------------------------
(* The orders with the id of a resting one.                                *)
Belongs(o) ==
  /\ o.decision \in DOMAIN decisions /\ o.id = decisions[o.decision].id
  /\ \/ o.kind = decisions[o.decision].kind
     \/ o.kind = "market" /\ decisions[o.decision].kind = "stop"
  /\ decisions[o.decision].kind # "cancel"

LEMMA OrderBelongs ==
  ASSUME OrdersInv, NEW k \in DOMAIN orders
  PROVE  Belongs(orders[k])
BY DEF OrdersInv, IsOrder, Belongs

LEMMA RestingId ==
  ASSUME IdsInv, NEW o, Belongs(o), o.id \in Ids
  PROVE  /\ Rests(o.decision) /\ o.kind \in {"market", "limit", "stop"}
         /\ o.kind # "market" => o.kind = decisions[o.decision].kind /\ IsOf(o.id, o.kind)
         /\ \A p : Belongs(p) /\ p.id = o.id => p.decision = o.decision
<1>1. decisions[o.decision].kind \in {"market", "limit", "stop", "cancel"}
  BY DEF IdsInv, Belongs
<1>2. decisions[o.decision].kind # "market"
  <2>1. Ids \cap ToSet(MarketIds) = {}
    BY ActionAssumption DEF Ids
  <2> QED
    BY <2>1 DEF IdsInv, Belongs
<1>3. Rests(o.decision)
  BY <1>1, <1>2 DEF Belongs, Rests
<1>4. ASSUME NEW p, Belongs(p), p.id = o.id PROVE p.decision = o.decision
  BY <1>3, <1>4 DEF IdsInv, Belongs
<1> QED
  BY <1>1, <1>2, <1>3, <1>4 DEF Belongs, IsOf, Rests

(* A limit order outside the ids of the strategy does not exist either.    *)
LEMMA NotMarketRests ==
  ASSUME IdsInv, NEW o, Belongs(o), o.kind # "market"
  PROVE  o.kind \in {"limit", "stop"} /\ o.id \in Ids /\ IsOf(o.id, o.kind)
BY DEF IdsInv, Belongs, Rests, IsOf

LEMMA OneKind ==
  ASSUME IdsInv, NEW o, Belongs(o), NEW p, Belongs(p), o.id = p.id,
         o.kind # "market", p.kind # "market"
  PROVE  o.kind = p.kind
<1>1. o.id \in Ids
  BY NotMarketRests
<1>2. p.decision = o.decision
  BY <1>1, RestingId
<1> QED
  BY <1>2 DEF Belongs

(* A resting order that is open is the only one with its id, if it was     *)
(* accepted once.                                                          *)
LEMMA OnlyOpen ==
  ASSUME OrdersInv, IdsInv, AcceptedInv, NEW id \in Ids, AcceptedOnce(id),
         NEW k \in DOMAIN orders, orders[k].id = id, orders[k].state = "open",
         orders[k].kind # "market",
         NEW j \in DOMAIN orders, orders[j].id = id
  PROVE  j = k
<1>1. Belongs(orders[j]) /\ Belongs(orders[k])
  BY OrderBelongs
<1>2. orders[j].decision = orders[k].decision
  BY <1>1, RestingId
<1>3. decisions[orders[k].decision].placed <= 1
  BY <1>1 DEF Belongs, AcceptedOnce
<1>4. j # k => Issued(k, j) \/ Issued(j, k)
  BY <1>2, <1>3 DEF AcceptedInv, Of
<1> QED
  BY <1>4 DEF Issued

(* What a message is about.                                                *)
LEMMA MessageOrder ==
  ASSUME MessagesInv, NewsInv, NEW i \in DOMAIN stream, NEW id,
         Adds(stream[i], id) \/ Removes(stream[i], id)
  PROVE  \E k \in DOMAIN orders : /\ orders[k].id = id /\ Tells(stream[i], k)
                                  /\ Adds(stream[i], id) => orders[k].kind = "limit"
                                  /\ Removes(stream[i], id) => orders[k].state = "done"
BY DEF MessagesInv, IsMessage, NewsInv, Adds, Removes, Tells, Ends

LEMMA AlgoMessageOrder ==
  ASSUME NewsInv, NEW i \in DOMAIN algoStream, NEW id,
         AlgoAdds(algoStream[i], id) \/ AlgoRemoves(algoStream[i], id)
  PROVE  \E k \in DOMAIN orders : orders[k].id = id /\ orders[k].kind = "stop"
BY DEF NewsInv, AlgoAdds, AlgoRemoves

-----------------------------------------------------------------------------
(* The sequence u is s, and then e.                                        *)
Extended(u, s, e) ==
  /\ \A i \in DOMAIN s : i \in DOMAIN u /\ u[i] = s[i]
  /\ \A i \in DOMAIN u :
       \/ i \in DOMAIN s /\ u[i] = s[i]
       \/ /\ \E j \in DOMAIN e : u[i] = e[j]
          /\ \A l \in DOMAIN s : l < i
  /\ \A j \in DOMAIN e : \E i \in DOMAIN u : u[i] = e[j] /\ \A l \in DOMAIN s : l < i

LEMMA JoinedExtended ==
  ASSUME NEW s, NEW t, NEW u, Joined(u, s, t)
  PROVE  Extended(u, s, t)
<1>1. PICK n : n = Len(s)
  OBVIOUS
<1>2. /\ n \in Nat /\ DOMAIN s = 1..n /\ DOMAIN t \subseteq Nat \ {0}
      /\ \A i \in DOMAIN s : i \in DOMAIN u /\ u[i] = s[i]
      /\ \A j \in DOMAIN t : n + j \in DOMAIN u /\ u[n + j] = t[j]
      /\ \A i \in DOMAIN u : i \in DOMAIN s \/ \E j \in DOMAIN t : i = n + j
  BY <1>1, JoinedSequence
<1>3. \A j \in DOMAIN t : \A l \in DOMAIN s : l < n + j
  BY <1>2
<1>4. ASSUME NEW i \in DOMAIN u
      PROVE  \/ i \in DOMAIN s /\ u[i] = s[i]
             \/ (\E j \in DOMAIN t : u[i] = t[j]) /\ \A l \in DOMAIN s : l < i
  BY <1>2, <1>3
<1>5. ASSUME NEW j \in DOMAIN t
      PROVE  \E i \in DOMAIN u : u[i] = t[j] /\ \A l \in DOMAIN s : l < i
  BY <1>2, <1>3
<1> QED
  BY <1>2, <1>4, <1>5 DEF Extended

(* What a step of the exchange says: the position, that a resting order    *)
(* was accepted and that it is over, each in the stream of its kind.       *)
SpeaksOfPosition(extra) ==
  /\ \A i \in DOMAIN extra : extra[i].type = "account" => extra[i].position = xposition'
  /\ xposition' # xposition => \E i \in DOMAIN extra : extra[i].type = "account"

SpeaksOfOrders(extra) ==
  \A i \in DOMAIN extra : extra[i].type = "order" =>
    LET k == extra[i].order
    IN /\ k \in DOMAIN orders' /\ extra[i].id = orders'[k].id
       /\ extra[i].kind = orders'[k].kind
       /\ extra[i].state = Ack => k \notin DOMAIN orders
       /\ extra[i].state \in Terminal =>
            k \in DOMAIN orders /\ orders[k].state = "open" /\ orders'[k].state = "done"

SpeaksOfAlgo(algo) ==
  \A i \in DOMAIN algo : \E k \in DOMAIN orders' :
    /\ orders'[k].id = algo[i].id /\ orders'[k].kind = "stop"
    /\ algo[i].state = Ack => k \notin DOMAIN orders
    /\ algo[i].state \in Gone =>
         k \in DOMAIN orders /\ orders[k].state = "open" /\ orders'[k].state = "done"

TellsAll(extra, algo) ==
  /\ \A k \in DOMAIN orders' \ DOMAIN orders :
       /\ orders'[k].kind = "limit" => \E i \in DOMAIN extra : Adds(extra[i], orders'[k].id)
       /\ orders'[k].kind = "stop" => \E i \in DOMAIN algo : AlgoAdds(algo[i], orders'[k].id)
  /\ \A k \in DOMAIN orders : orders[k].state = "open" /\ orders'[k].state = "done" =>
       /\ orders[k].kind = "limit" => \E i \in DOMAIN extra : Removes(extra[i], orders[k].id)
       /\ orders[k].kind = "stop" => \E i \in DOMAIN algo : AlgoRemoves(algo[i], orders[k].id)

Speaks(extra, algo) ==
  /\ Sequence(extra) /\ Sequence(algo)
  /\ SpeaksOfPosition(extra) /\ SpeaksOfOrders(extra) /\ SpeaksOfAlgo(algo)
  /\ TellsAll(extra, algo)

LEMMA SendExtends ==
  ASSUME Sequence(stream), Sequence(algoStream),
         NEW extra, NEW algo, Speaks(extra, algo), Send(extra, algo)
  PROVE  \/ stream' = stream /\ algoStream' = algoStream /\ missed'
         \/ /\ missed' = missed
            /\ Extended(stream', stream, extra) /\ Extended(algoStream', algoStream, algo)
<1>1. CASE link = "open"
  <2>1. /\ Joined(stream', stream, extra) /\ Joined(algoStream', algoStream, algo)
        /\ missed' = missed
    BY <1>1 DEF Send, Joined, Speaks
  <2>2. Extended(stream', stream, extra)
    BY <2>1, JoinedExtended
  <2>3. Extended(algoStream', algoStream, algo)
    BY <2>1, JoinedExtended
  <2> QED
    BY <2>1, <2>2, <2>3
<1>2. CASE link # "open"
  BY <1>2 DEF Send
<1> QED
  BY <1>1, <1>2

LEMMA PositionSaid ==
  ASSUME PositionInv, ~missed, position' = position,
         NEW extra, SpeaksOfPosition(extra), Extended(stream', stream, extra)
  PROVE  PositionInv'
<1>1. /\ \A i \in DOMAIN stream : i \in DOMAIN stream' /\ stream'[i] = stream[i]
      /\ \A i \in DOMAIN stream' : \/ i \in DOMAIN stream /\ stream'[i] = stream[i]
                                   \/ \E j \in DOMAIN extra : stream'[i] = extra[j]
      /\ \A j \in DOMAIN extra : \E i \in DOMAIN stream' :
           stream'[i] = extra[j] /\ \A l \in DOMAIN stream : l < i
  BY DEF Extended
<1>2. (\A i \in DOMAIN stream' : stream'[i].type # "account") => position' = xposition'
  <2> SUFFICES ASSUME \A i \in DOMAIN stream' : stream'[i].type # "account"
               PROVE  position = xposition'
    OBVIOUS
  <2>1. \A i \in DOMAIN stream : stream[i].type # "account"
    BY <1>1
  <2>2. \A j \in DOMAIN extra : extra[j].type # "account"
    BY <1>1
  <2> QED
    BY <2>1, <2>2 DEF PositionInv, SpeaksOfPosition
<1>3. ASSUME NEW i \in DOMAIN stream', stream'[i].type = "account",
             \A j \in DOMAIN stream' : i < j => stream'[j].type # "account"
      PROVE  stream'[i].position = xposition'
  <2>1. CASE \E j \in DOMAIN extra : stream'[i] = extra[j]
    BY <1>3, <2>1 DEF SpeaksOfPosition
  <2>2. CASE i \in DOMAIN stream /\ stream'[i] = stream[i]
    <3>1. \A j \in DOMAIN stream : i < j => stream[j].type # "account"
      BY <1>1, <1>3
    <3>2. stream[i].position = xposition
      BY <1>3, <2>2, <3>1 DEF PositionInv
    <3>3. \A j \in DOMAIN extra : extra[j].type # "account"
      BY <1>1, <1>3, <2>2
    <3> QED
      BY <2>2, <3>2, <3>3 DEF SpeaksOfPosition
  <2> QED
    BY <1>1, <2>1, <2>2
<1> QED
  BY <1>2, <1>3 DEF PositionInv

LEMMA NewsSaid ==
  ASSUME NewsInv, MessagesInv, OrdersGrow, Sequence(algoStream),
         NEW extra, NEW algo, Speaks(extra, algo), Send(extra, algo)
  PROVE  NewsInv'
<1>1. ASSUME NEW i \in DOMAIN stream, stream[i].type = "order"
      PROVE  stream[i].kind = orders'[stream[i].order].kind
  BY <1>1 DEF NewsInv, MessagesInv, IsMessage, OrdersGrow
<1>2. ASSUME NEW i \in DOMAIN algoStream
      PROVE  \E k \in DOMAIN orders' : orders'[k].id = algoStream[i].id /\ orders'[k].kind = "stop"
  BY DEF NewsInv, OrdersGrow
<1>3. CASE stream' = stream /\ algoStream' = algoStream
  BY <1>1, <1>2, <1>3 DEF NewsInv
<1>4. CASE Extended(stream', stream, extra) /\ Extended(algoStream', algoStream, algo)
  <2>1. ASSUME NEW i \in DOMAIN stream', stream'[i].type = "order"
        PROVE  stream'[i].kind = orders'[stream'[i].order].kind
    <3>1. CASE i \in DOMAIN stream /\ stream'[i] = stream[i]
      BY <1>1, <2>1, <3>1
    <3>2. CASE \E j \in DOMAIN extra : stream'[i] = extra[j]
      BY <2>1, <3>2 DEF Speaks, SpeaksOfOrders
    <3> QED
      BY <1>4, <3>1, <3>2 DEF Extended
  <2>2. ASSUME NEW i \in DOMAIN algoStream'
        PROVE  \E k \in DOMAIN orders' :
                 orders'[k].id = algoStream'[i].id /\ orders'[k].kind = "stop"
    <3>1. CASE i \in DOMAIN algoStream /\ algoStream'[i] = algoStream[i]
      BY <1>2, <3>1
    <3>2. CASE \E j \in DOMAIN algo : algoStream'[i] = algo[j]
      BY <3>2 DEF Speaks, SpeaksOfAlgo
    <3> QED
      BY <1>4, <3>1, <3>2 DEF Extended
  <2> QED
    BY <2>1, <2>2 DEF NewsInv
<1>5. Sequence(stream)
  BY DEF MessagesInv
<1> QED
  BY <1>3, <1>4, <1>5, SendExtends

(* No order with this id comes after another one, unless it was issued.    *)
NoneNew(id) == \A k \in DOMAIN orders' \ DOMAIN orders :
  orders'[k].id = id => orders'[k].kind = "market"

LEMMA FirstOfItsId ==
  ASSUME OrdersInv, OrdersInv', IdsInv, AcceptedInv, PlacedGrow, NewOrders,
         NEW id \in Ids, AcceptedOnce(id)',
         NEW j \in DOMAIN orders, orders[j].id = id
  PROVE  NoneNew(id)
<1> SUFFICES ASSUME NEW k \in DOMAIN orders' \ DOMAIN orders, orders'[k].id = id,
                    orders'[k].kind # "market"
             PROVE  FALSE
  BY DEF NoneNew
<1> DEFINE o == orders'[k]
<1>1. Belongs(o) /\ decisions'[o.decision].id = id /\ o.decision \in DOMAIN decisions'
  BY DEF OrdersInv, IsOrder, PlacedGrow, Belongs
<1>2. decisions'[o.decision].placed <= 1
  BY <1>1 DEF AcceptedOnce
<1>3. decisions[o.decision].placed = 0
  BY <1>2 DEF NewOrders, Issues
<1>4. Belongs(orders[j])
  BY OrderBelongs
<1>5. orders[j].decision = o.decision
  <2> HIDE DEF o
  <2>1. o.id = id
    BY DEF o
  <2> QED
    BY <1>1, <1>4, <2>1, RestingId
<1>6. decisions[orders[j].decision].placed >= 1
  BY DEF AcceptedInv
<1> QED
  BY <1>3, <1>5, <1>6

NothingAdded(extra, algo, id) ==
  /\ \A i \in DOMAIN extra : ~Adds(extra[i], id)
  /\ \A i \in DOMAIN algo : ~AlgoAdds(algo[i], id)

LEMMA NoneAdded ==
  ASSUME NEW extra, NEW algo, Speaks(extra, algo), NEW id, NoneNew(id)
  PROVE  NothingAdded(extra, algo, id)
BY DEF Speaks, SpeaksOfOrders, SpeaksOfAlgo, NoneNew, NothingAdded, Adds, AlgoAdds

(* An order on the exchange stays there. *)
LEMMA StaysShown ==
  ASSUME OrdersInv, IdsInv, AcceptedInv, OrdersGrow,
         NEW extra, NEW algo, Speaks(extra, algo),
         Extended(stream', stream, extra), Extended(algoStream', algoStream, algo),
         book' = book, NEW id \in Ids, AcceptedOnce(id), Shown(id),
         NEW k \in DOMAIN orders, orders[k].state = "open", orders[k].id = id,
         orders[k].kind # "market", orders'[k].state = "open",
         CancelTold(id) => CancelTold(id)'
  PROVE  Shown(id)'
<1>1. \A j \in DOMAIN orders : orders[j].id = id => j = k
  BY OnlyOpen
<1>2. ASSUME NEW i \in DOMAIN stream', Removes(stream'[i], id) PROVE FALSE
  <2>1. CASE i \in DOMAIN stream /\ stream'[i] = stream[i]
    BY <1>2, <2>1 DEF Shown
  <2>2. CASE \E j \in DOMAIN extra : stream'[i] = extra[j]
    <3>1. PICK j \in DOMAIN extra : Removes(extra[j], id)
      BY <1>2, <2>2
    <3>2. PICK o \in DOMAIN orders : orders'[o].id = id /\ orders'[o].state = "done"
      BY <3>1 DEF Speaks, SpeaksOfOrders, Removes
    <3> QED
      BY <1>1, <3>2 DEF OrdersGrow
  <2> QED
    BY <2>1, <2>2 DEF Extended
<1>3. ASSUME NEW i \in DOMAIN algoStream', AlgoRemoves(algoStream'[i], id) PROVE FALSE
  <2>1. CASE i \in DOMAIN algoStream /\ algoStream'[i] = algoStream[i]
    BY <1>3, <2>1 DEF Shown
  <2>2. CASE \E j \in DOMAIN algo : algoStream'[i] = algo[j]
    <3>1. PICK j \in DOMAIN algo : AlgoRemoves(algo[j], id)
      BY <1>3, <2>2
    <3>2. PICK o \in DOMAIN orders : orders'[o].id = id /\ orders'[o].state = "done"
      BY <3>1 DEF Speaks, SpeaksOfAlgo, AlgoRemoves
    <3> QED
      BY <1>1, <3>2 DEF OrdersGrow
  <2> QED
    BY <2>1, <2>2 DEF Extended
<1>4. ~NotAdded(id) => ~NotAdded(id)'
  BY DEF NotAdded, Extended
<1>5. ~NotAlgoAdded(id) => ~NotAlgoAdded(id)'
  BY DEF NotAlgoAdded, Extended
<1>6. Listed(id) => Listed(id)'
  BY DEF Listed
<1> QED
  BY <1>2, <1>3, <1>4, <1>5, <1>6 DEF Shown

(* An order on the exchange ends. *)
LEMMA EndsHidden ==
  ASSUME OrdersInv, MessagesInv, IdsInv, NewsInv,
         NEW extra, NEW algo, Speaks(extra, algo),
         Extended(stream', stream, extra), Extended(algoStream', algoStream, algo),
         NEW id, NothingAdded(extra, algo, id),
         NEW k \in DOMAIN orders, orders[k].state = "open", orders[k].id = id,
         orders[k].kind # "market", orders'[k].state = "done"
  PROVE  Hidden(id)'
<1>1. Belongs(orders[k]) /\ orders[k].kind \in {"limit", "stop"}
  BY OrderBelongs, NotMarketRests
<1>2. \A j \in DOMAIN orders : orders[j].id = id /\ orders[j].kind # "market" =>
                                 orders[j].kind = orders[k].kind
  BY <1>1, OrderBelongs, OneKind
<1>3. CASE orders[k].kind = "limit"
  <2>1. PICK e \in DOMAIN extra : Removes(extra[e], id)
    BY <1>3 DEF Speaks, TellsAll
  <2>2. PICK i \in DOMAIN stream' : stream'[i] = extra[e] /\ \A l \in DOMAIN stream : l < i
    BY DEF Extended
  <2>3. ASSUME NEW l \in DOMAIN stream', Adds(stream'[l], id) PROVE l < i
    BY <2>2, <2>3 DEF Extended, NothingAdded
  <2>4. RemovedLast(id)'
    BY <2>1, <2>2, <2>3 DEF RemovedLast
  <2>5. ASSUME NEW l \in DOMAIN algoStream', AlgoAdds(algoStream'[l], id) PROVE FALSE
    <3>1. CASE l \in DOMAIN algoStream /\ algoStream'[l] = algoStream[l]
      BY <1>2, <1>3, <2>5, <3>1, AlgoMessageOrder
    <3>2. CASE \E j \in DOMAIN algo : algoStream'[l] = algo[j]
      BY <2>5, <3>2 DEF NothingAdded
    <3> QED
      BY <3>1, <3>2 DEF Extended
  <2> QED
    BY <2>4, <2>5 DEF Hidden, NotAlgoAdded
<1>4. CASE orders[k].kind = "stop"
  <2>1. PICK e \in DOMAIN algo : AlgoRemoves(algo[e], id)
    BY <1>4 DEF Speaks, TellsAll
  <2>2. PICK i \in DOMAIN algoStream' :
          algoStream'[i] = algo[e] /\ \A l \in DOMAIN algoStream : l < i
    BY DEF Extended
  <2>3. ASSUME NEW l \in DOMAIN algoStream', AlgoAdds(algoStream'[l], id) PROVE l < i
    BY <2>2, <2>3 DEF Extended, NothingAdded
  <2>4. AlgoRemovedLast(id)'
    BY <2>1, <2>2, <2>3 DEF AlgoRemovedLast
  <2>5. ASSUME NEW l \in DOMAIN stream', Adds(stream'[l], id) PROVE FALSE
    <3>1. CASE l \in DOMAIN stream /\ stream'[l] = stream[l]
      BY <1>2, <1>4, <2>5, <3>1, MessageOrder
    <3>2. CASE \E j \in DOMAIN extra : stream'[l] = extra[j]
      BY <2>5, <3>2 DEF NothingAdded
    <3> QED
      BY <3>1, <3>2 DEF Extended
  <2> QED
    BY <2>4, <2>5 DEF Hidden, NotAdded
<1> QED
  BY <1>1, <1>3, <1>4

(* An id that is not on the exchange stays away. *)
LEMMA StaysHidden ==
  ASSUME NEW extra, NEW algo,
         Extended(stream', stream, extra), Extended(algoStream', algoStream, algo),
         book' = book, NEW id, Hidden(id), NothingAdded(extra, algo, id)
  PROVE  Hidden(id)'
<1>1. NotAdded(id) => NotAdded(id)'
  BY DEF NotAdded, Extended, NothingAdded
<1>2. NotAlgoAdded(id) => NotAlgoAdded(id)'
  BY DEF NotAlgoAdded, Extended, NothingAdded
<1>3. ASSUME RemovedLast(id) PROVE RemovedLast(id)'
  <2>1. PICK i \in DOMAIN stream :
          Removes(stream[i], id) /\ \A j \in DOMAIN stream : Adds(stream[j], id) => j < i
    BY <1>3 DEF RemovedLast
  <2>2. i \in DOMAIN stream' /\ Removes(stream'[i], id)
    BY <2>1 DEF Extended
  <2>3. \A j \in DOMAIN stream' : Adds(stream'[j], id) => j < i
    BY <2>1 DEF Extended, NothingAdded
  <2> QED
    BY <2>2, <2>3 DEF RemovedLast
<1>4. ASSUME AlgoRemovedLast(id) PROVE AlgoRemovedLast(id)'
  <2>1. PICK i \in DOMAIN algoStream :
          /\ AlgoRemoves(algoStream[i], id)
          /\ \A j \in DOMAIN algoStream : AlgoAdds(algoStream[j], id) => j < i
    BY <1>4 DEF AlgoRemovedLast
  <2>2. i \in DOMAIN algoStream' /\ AlgoRemoves(algoStream'[i], id)
    BY <2>1 DEF Extended
  <2>3. \A j \in DOMAIN algoStream' : AlgoAdds(algoStream'[j], id) => j < i
    BY <2>1 DEF Extended, NothingAdded
  <2> QED
    BY <2>2, <2>3 DEF AlgoRemovedLast
<1>5. ~Listed(id) => ~Listed(id)'
  BY DEF Listed
<1> QED
  BY <1>1, <1>2, <1>3, <1>4, <1>5 DEF Hidden

(* An order enters the exchange. *)
LEMMA BeginsShown ==
  ASSUME OrdersInv, OrdersInv', MessagesInv, IdsInv, NewsInv, OrdersGrow, PlacedGrow,
         NEW extra, NEW algo, Speaks(extra, algo),
         Extended(stream', stream, extra), Extended(algoStream', algoStream, algo),
         NEW id, \A j \in DOMAIN orders : orders[j].id # id,
         NEW k \in DOMAIN orders' \ DOMAIN orders, orders'[k].id = id,
         orders'[k].kind # "market"
  PROVE  Shown(id)'
<1>1. orders'[k].kind \in {"limit", "stop"}
  <2> DEFINE o == orders'[k]
  <2>1. Belongs(o) /\ o.kind # "market"
    BY DEF OrdersInv, IsOrder, PlacedGrow, Belongs
  <2> HIDE DEF o
  <2>2. o.kind \in {"limit", "stop"}
    BY <2>1, NotMarketRests
  <2> QED
    BY <2>2 DEF o
<1>2. ASSUME NEW i \in DOMAIN stream', Removes(stream'[i], id) PROVE FALSE
  <2>1. CASE i \in DOMAIN stream /\ stream'[i] = stream[i]
    BY <1>2, <2>1, MessageOrder
  <2>2. CASE \E j \in DOMAIN extra : stream'[i] = extra[j]
    BY <1>2, <2>2 DEF Speaks, SpeaksOfOrders, Removes, OrdersGrow
  <2> QED
    BY <2>1, <2>2 DEF Extended
<1>3. ASSUME NEW i \in DOMAIN algoStream', AlgoRemoves(algoStream'[i], id) PROVE FALSE
  <2>1. CASE i \in DOMAIN algoStream /\ algoStream'[i] = algoStream[i]
    BY <1>3, <2>1, AlgoMessageOrder
  <2>2. CASE \E j \in DOMAIN algo : algoStream'[i] = algo[j]
    BY <1>3, <2>2 DEF Speaks, SpeaksOfAlgo, AlgoRemoves, OrdersGrow
  <2> QED
    BY <2>1, <2>2 DEF Extended
<1>4. ~NotAdded(id)' \/ ~NotAlgoAdded(id)'
  BY <1>1 DEF Speaks, TellsAll, Extended, NotAdded, NotAlgoAdded
<1> QED
  BY <1>2, <1>3, <1>4 DEF Shown

LEMMA ListingSaid ==
  ASSUME OrdersInv, OrdersInv', FillsInv, MessagesInv, IdsInv, AcceptedInv, NewsInv,
         OrdersGrow, PlacedGrow, NewOrders,
         NEW extra, NEW algo, Speaks(extra, algo),
         Extended(stream', stream, extra), Extended(algoStream', algoStream, algo),
         book' = book, NEW id \in Ids, AcceptedOnce(id)', AcceptedOnce(id) => Mirrored(id),
         AcceptedOnce(id) /\ OnExchange(id)' /\ CancelTold(id) => CancelTold(id)'
  PROVE  Mirrored(id)'
<1>1. AcceptedOnce(id) /\ Mirrored(id)
  BY DEF AcceptedOnce, PlacedGrow
<1>2. \A k \in DOMAIN orders' : orders'[k].state \in {"open", "done"}
  BY DEF OrdersGrow, IsFilled
<1>3. CASE OnExchange(id)
  <2>1. PICK k \in DOMAIN orders :
          orders[k].state = "open" /\ orders[k].id = id /\ orders[k].kind # "market"
    BY <1>3 DEF OnExchange, IsOpen
  <2>2. NoneNew(id)
    BY <2>1, FirstOfItsId
  <2>3. NothingAdded(extra, algo, id)
    BY <2>2, NoneAdded
  <2>4. k \in DOMAIN orders' /\ orders'[k].id = id /\ orders'[k].kind = orders[k].kind
    BY <2>1 DEF OrdersGrow
  <2>5. CASE orders'[k].state = "open"
    <3>1. OnExchange(id)'
      BY <2>1, <2>4, <2>5 DEF OnExchange, IsOpen
    <3>2. Shown(id)
      BY <1>1, <1>3 DEF Mirrored
    <3>3. Shown(id)'
      BY <1>1, <2>1, <2>5, <3>1, <3>2, StaysShown
    <3> QED
      BY <3>1, <3>3 DEF Mirrored
  <2>6. CASE orders'[k].state = "done"
    <3>1. ~OnExchange(id)'
      <4> SUFFICES ASSUME NEW j \in DOMAIN orders', orders'[j].state = "open",
                          orders'[j].id = id, orders'[j].kind # "market"
                   PROVE  FALSE
        BY DEF OnExchange, IsOpen
      <4>1. j \in DOMAIN orders
        BY <2>2 DEF NoneNew
      <4>2. orders[j].id = id
        BY <4>1 DEF OrdersGrow
      <4>3. j = k
        BY <1>1, <2>1, <4>1, <4>2, OnlyOpen
      <4> QED
        BY <2>6, <4>3
    <3>2. Hidden(id)'
      BY <2>1, <2>3, <2>6, EndsHidden
    <3> QED
      BY <3>1, <3>2 DEF Mirrored
  <2> QED
    BY <1>2, <2>4, <2>5, <2>6
<1>4. CASE ~OnExchange(id)
  <2>1. ASSUME NEW j \in DOMAIN orders, orders'[j].state = "open", orders'[j].id = id,
               orders'[j].kind # "market"
        PROVE  FALSE
    <3>1. orders[j].id = id /\ orders[j].kind # "market"
      BY <2>1 DEF OrdersGrow
    <3>2. orders[j].state = "open"
      BY <2>1 DEF OrdersGrow, FillsInv, IsFilled
    <3> QED
      BY <1>4, <3>1, <3>2 DEF OnExchange, IsOpen
  <2>2. CASE OnExchange(id)'
    <3>1. PICK k \in DOMAIN orders' :
            orders'[k].state = "open" /\ orders'[k].id = id /\ orders'[k].kind # "market"
      BY <2>2 DEF OnExchange, IsOpen
    <3>2. k \notin DOMAIN orders
      BY <2>1, <3>1
    <3>3. \A j \in DOMAIN orders : orders[j].id # id
      BY <3>1, <3>2, FirstOfItsId DEF NoneNew
    <3>4. Shown(id)'
      BY <3>1, <3>2, <3>3, BeginsShown
    <3> QED
      BY <2>2, <3>4 DEF Mirrored
  <2>3. CASE ~OnExchange(id)'
    <3>1. NoneNew(id)
      BY <2>3 DEF NoneNew, OnExchange, IsOpen, OrdersGrow
    <3>2. NothingAdded(extra, algo, id)
      BY <3>1, NoneAdded
    <3>3. Hidden(id)'
      BY <1>1, <1>4, <3>2, StaysHidden DEF Mirrored
    <3> QED
      BY <2>3, <3>3 DEF Mirrored
  <2> QED
    BY <2>2, <2>3
<1> QED
  BY <1>3, <1>4

(* A step of the exchange, with what it says. *)
CancelsStay ==
  \A id \in Ids : AcceptedOnce(id) /\ OnExchange(id)' /\ CancelTold(id) => CancelTold(id)'

LEMMA ExchangeKeepsMirror ==
  ASSUME ExecutorInv, ExecutorInv', RecordInv, PairingInv, MirrorInv,
         OrdersGrow, PlacedGrow, NewOrders,
         NEW extra, NEW algo, Speaks(extra, algo), Send(extra, algo),
         UNCHANGED <<book, position>>, CancelsStay
  PROVE  PositionInv' /\ NewsInv' /\ ListingInv'
<1>1. /\ OrdersInv /\ OrdersInv' /\ FillsInv /\ MessagesInv /\ IdsInv /\ AcceptedInv
      /\ Sequence(stream) /\ Sequence(algoStream)
      /\ PositionInv /\ NewsInv /\ ListingInv
  BY DEF ExecutorInv, RecordInv, PairingInv, MirrorInv, MessagesInv, AlgoInv
<1>2. NewsInv'
  BY <1>1, NewsSaid
<1>3. CASE missed'
  BY <1>2, <1>3 DEF PositionInv, ListingInv
<1>4. CASE ~missed'
  <2>1. /\ ~missed /\ Extended(stream', stream, extra)
        /\ Extended(algoStream', algoStream, algo)
    BY <1>1, <1>4, SendExtends
  <2>2. PositionInv'
    BY <1>1, <2>1, PositionSaid DEF Speaks
  <2>3. ASSUME NEW id \in Ids, AcceptedOnce(id)' PROVE Mirrored(id)'
    <3>1. AcceptedOnce(id) /\ OnExchange(id)' /\ CancelTold(id) => CancelTold(id)'
      BY DEF CancelsStay
    <3>2. AcceptedOnce(id) => Mirrored(id)
      BY <1>1, <2>1 DEF ListingInv
    <3> QED
      BY <1>1, <2>1, <2>3, <3>1, <3>2, ListingSaid
  <2> QED
    BY <1>2, <2>2, <2>3 DEF ListingInv
<1> QED
  BY <1>3, <1>4

-----------------------------------------------------------------------------
(* What each step of the exchange says.                                    *)
SpeaksOfOrder(m) ==
  LET k == m.order
  IN /\ k \in DOMAIN orders' /\ m.id = orders'[k].id /\ m.kind = orders'[k].kind
     /\ m.state = Ack => k \notin DOMAIN orders
     /\ m.state \in Terminal =>
          k \in DOMAIN orders /\ orders[k].state = "open" /\ orders'[k].state = "done"
SpeaksOfAlgoOrder(m) ==
  \E k \in DOMAIN orders' :
    /\ orders'[k].id = m.id /\ orders'[k].kind = "stop"
    /\ m.state = Ack => k \notin DOMAIN orders
    /\ m.state \in Gone =>
         k \in DOMAIN orders /\ orders[k].state = "open" /\ orders'[k].state = "done"

LEMMA SpeaksEmpty ==
  /\ Sequence(<<>>) /\ SpeaksOfOrders(<<>>) /\ SpeaksOfAlgo(<<>>)
  /\ xposition' = xposition => SpeaksOfPosition(<<>>)
BY EmptySequence DEF SpeaksOfOrders, SpeaksOfAlgo, SpeaksOfPosition

LEMMA SpeaksOne ==
  ASSUME NEW m, m.type = "order", SpeaksOfOrder(m)
  PROVE  /\ Sequence(<<m>>) /\ SpeaksOfOrders(<<m>>)
         /\ xposition' = xposition => SpeaksOfPosition(<<m>>)
         /\ \E i \in DOMAIN <<m>> : <<m>>[i] = m
<1> DEFINE s == <<m>>
<1>1. Sequence(s) /\ DOMAIN s = {1} /\ s[1] = m
  BY ShortSequences
<1> HIDE DEF s
<1>2. SpeaksOfOrders(s)
  BY <1>1 DEF SpeaksOfOrders, SpeaksOfOrder
<1>3. xposition' = xposition => SpeaksOfPosition(s)
  BY <1>1 DEF SpeaksOfPosition
<1> QED
  BY <1>1, <1>2, <1>3 DEF s

LEMMA SpeaksOneAlgo ==
  ASSUME NEW m, SpeaksOfAlgoOrder(m)
  PROVE  /\ Sequence(<<m>>) /\ SpeaksOfAlgo(<<m>>)
         /\ \E i \in DOMAIN <<m>> : <<m>>[i] = m
<1> DEFINE s == <<m>>
<1>1. Sequence(s) /\ DOMAIN s = {1} /\ s[1] = m
  BY ShortSequences
<1> HIDE DEF s
<1>2. SpeaksOfAlgo(s)
  BY <1>1 DEF SpeaksOfAlgo, SpeaksOfAlgoOrder
<1> QED
  BY <1>1, <1>2 DEF s

LEMMA PlaceSpeaks ==
  ASSUME OrdersInv, NEW a, NEW d, Place(a, d)
  PROVE  \E extra, algo : Speaks(extra, algo) /\ Send(extra, algo)
<1> DEFINE o == [id |-> a.id, kind |-> a.kind, reduce |-> a.reduce, quantity |-> a.quantity,
                 executed |-> 0, fills |-> 0, state |-> "open", decision |-> d]
           last == Len(orders) + 1
<1>1. orders' = Append(orders, o) /\ Sequence(orders) /\ xposition' = xposition
  BY DEF Place, Enters, OrdersInv
<1>2. o.kind = a.kind /\ o.id = a.id
  OBVIOUS
<1> HIDE DEF o
<1>3. /\ Len(orders') = last
      /\ DOMAIN orders' = DOMAIN orders \cup {last} /\ last \notin DOMAIN orders
      /\ \A k \in DOMAIN orders : orders'[k] = orders[k]
      /\ orders'[last] = o
  BY <1>1, AppendSequence
<1> HIDE DEF last
<1>4. CASE Conditional(a.kind)
  <2> DEFINE m == AlgoUpdate(a.id, "NEW")
  <2>1. Send(<<>>, <<m>>) /\ m.id = a.id /\ m.state = "NEW" /\ orders'[last].kind = "stop"
    BY <1>2, <1>3, <1>4 DEF Place, AlgoUpdate, Conditional
  <2> HIDE DEF m
  <2>2. SpeaksOfAlgoOrder(m)
    BY <1>2, <1>3, <2>1 DEF SpeaksOfAlgoOrder, Gone, Ack
  <2>3. TellsAll(<<>>, <<m>>)
    BY <1>2, <1>3, <2>1, <2>2, SpeaksOneAlgo DEF TellsAll, AlgoAdds, Ack
  <2>4. Speaks(<<>>, <<m>>)
    BY <1>1, <2>2, <2>3, SpeaksEmpty, SpeaksOneAlgo DEF Speaks
  <2> QED
    BY <2>1, <2>4
<1>5. CASE ~Conditional(a.kind) /\ a.kind = "market"
  <2>1. Send(<<>>, <<>>)
    BY <1>2, <1>3, <1>5 DEF Place, NewMessage
  <2>2. TellsAll(<<>>, <<>>)
    BY <1>2, <1>3, <1>5 DEF TellsAll
  <2> QED
    BY <1>1, <2>1, <2>2, SpeaksEmpty DEF Speaks
<1>6. CASE ~Conditional(a.kind) /\ a.kind # "market"
  <2> DEFINE m == OrderUpdate(last, "NEW", FALSE)
  <2>1. /\ Send(<<m>>, <<>>) /\ m.type = "order" /\ m.order = last /\ m.state = "NEW"
        /\ m.id = orders'[last].id /\ m.kind = orders'[last].kind
    BY <1>2, <1>3, <1>6 DEF Place, OrderUpdate, NewMessage
  <2> HIDE DEF m
  <2>2. SpeaksOfOrder(m)
    BY <1>2, <1>3, <2>1 DEF SpeaksOfOrder, Terminal, Ack
  <2>3. TellsAll(<<m>>, <<>>)
    BY <1>2, <1>3, <1>6, <2>1, <2>2, SpeaksOne DEF TellsAll, Adds, Ack, Conditional
  <2>4. Speaks(<<m>>, <<>>)
    BY <1>1, <2>1, <2>2, <2>3, SpeaksEmpty, SpeaksOne DEF Speaks
  <2> QED
    BY <2>1, <2>4
<1> QED
  BY <1>4, <1>5, <1>6

LEMMA ExpireSpeaks ==
  ASSUME OrdersInv, FillsInv, NEW k \in DOMAIN orders, Expire(k)
  PROVE  \E extra, algo : Speaks(extra, algo) /\ Send(extra, algo)
<1> DEFINE m == OrderUpdate(k, "EXPIRED", FALSE)
           numbers == {k}
<1>1. /\ Withdrawn(numbers) /\ Send(<<m>>, <<>>) /\ orders[k].state = "open"
      /\ xposition' = xposition /\ ~Conditional(orders[k].kind)
  BY DEF Expire, IsOpen
<1>2. /\ m.type = "order" /\ m.order = k /\ m.state = "EXPIRED"
      /\ m.id = orders'[k].id /\ m.kind = orders'[k].kind
  BY DEF OrderUpdate
<1>3. \A j : j \in numbers <=> j = k
  OBVIOUS
<1> HIDE DEF m, numbers
<1>4. /\ DOMAIN orders' = DOMAIN orders
      /\ \A j \in DOMAIN orders : j # k => orders'[j] = orders[j]
      /\ orders'[k].state = "done" /\ orders'[k].kind = orders[k].kind
      /\ orders'[k].id = orders[k].id
  BY <1>1, <1>3, WithdrawnOrders
<1>5. SpeaksOfOrder(m)
  BY <1>1, <1>2, <1>4 DEF SpeaksOfOrder, Ack
<1>6. \A j \in DOMAIN orders : orders[j].state = "open" /\ orders'[j].state = "done" => j = k
  BY <1>4
<1>7. TellsAll(<<m>>, <<>>)
  <2>1. Removes(m, orders[k].id)
    BY <1>2, <1>4 DEF Removes, Terminal
  <2>2. \E i \in DOMAIN <<m>> : <<m>>[i] = m
    BY <1>2, <1>5, SpeaksOne
  <2> QED
    BY <1>1, <1>4, <1>6, <2>1, <2>2 DEF TellsAll, Conditional
<1>8. Speaks(<<m>>, <<>>)
  BY <1>1, <1>2, <1>5, <1>7, SpeaksEmpty, SpeaksOne DEF Speaks
<1> QED
  BY <1>1, <1>8

LEMMA TriggerSpeaks ==
  ASSUME OrdersInv, FillsInv, NEW k \in DOMAIN orders, Trigger(k)
  PROVE  \E extra, algo : Speaks(extra, algo) /\ Send(extra, algo)
<1> DEFINE m == AlgoUpdate(orders[k].id, "TRIGGERED")
<1>1. Send(<<>>, <<m>>) /\ xposition' = xposition
  BY DEF Trigger
<1>2. m.id = orders[k].id /\ m.state = "TRIGGERED"
  BY DEF AlgoUpdate
<1> HIDE DEF m
<1>3. PICK last : /\ last \notin DOMAIN orders /\ DOMAIN orders' = DOMAIN orders \cup {last}
                  /\ orders'[last].kind = "market"
                  /\ \A j \in DOMAIN orders : /\ j # k => orders'[j] = orders[j]
                                              /\ orders'[j].kind = orders[j].kind
                                              /\ orders'[j].id = orders[j].id
                  /\ orders[k].state = "open" /\ orders'[k].state = "done"
                  /\ orders[k].kind = "stop"
  BY TriggeredOrders DEF Conditional
<1>4. SpeaksOfAlgoOrder(m)
  BY <1>2, <1>3 DEF SpeaksOfAlgoOrder, Ack
<1>5. TellsAll(<<>>, <<m>>)
  <2>1. AlgoRemoves(m, orders[k].id)
    BY <1>2 DEF AlgoRemoves, Gone
  <2>2. \E i \in DOMAIN <<m>> : <<m>>[i] = m
    BY <1>4, SpeaksOneAlgo
  <2> QED
    BY <1>3, <2>1, <2>2 DEF TellsAll
<1>6. Speaks(<<>>, <<m>>)
  BY <1>1, <1>4, <1>5, SpeaksEmpty, SpeaksOneAlgo DEF Speaks
<1> QED
  BY <1>1, <1>6

LEMMA ExecuteSpeaks ==
  ASSUME OrdersInv, FillsInv, NEW k \in DOMAIN orders, Execute(k)
  PROVE  \E extra, algo : Speaks(extra, algo) /\ Send(extra, algo)
<1> DEFINE st == orders'[k].state
           a == AccountUpdate
           m == OrderUpdate(k, IF st = "done" THEN "FILLED" ELSE "PARTIALLY_FILLED", TRUE)
           extra == <<a, m>>
<1>1. /\ DOMAIN orders' = DOMAIN orders
      /\ \A j \in DOMAIN orders : j # k => orders'[j] = orders[j]
      /\ orders[k].state = "open" /\ ~Conditional(orders[k].kind)
      /\ orders'[k].id = orders[k].id /\ orders'[k].kind = orders[k].kind
      /\ st \in {"open", "done"}
      /\ Send(extra, <<>>)
  BY ExecutedOrder
<1>2. /\ m.type = "order" /\ m.order = k
      /\ m.state = IF st = "done" THEN "FILLED" ELSE "PARTIALLY_FILLED"
      /\ m.id = orders'[k].id /\ m.kind = orders'[k].kind
      /\ a.type = "account" /\ a.position = xposition'
  BY DEF OrderUpdate, AccountUpdate
<1> HIDE DEF a, m
<1>3. Sequence(extra) /\ DOMAIN extra = {1, 2} /\ extra[1] = a /\ extra[2] = m
  BY ShortSequences
<1> HIDE DEF extra
<1>4. SpeaksOfOrders(extra)
  BY <1>1, <1>2, <1>3 DEF SpeaksOfOrders, Terminal, Ack
<1>5. SpeaksOfPosition(extra)
  BY <1>2, <1>3 DEF SpeaksOfPosition
<1>6. TellsAll(extra, <<>>)
  <2>1. st = "done" => Removes(extra[2], orders[k].id)
    BY <1>1, <1>2, <1>3 DEF Removes, Terminal
  <2>2. \A j \in DOMAIN orders : orders[j].state = "open" /\ orders'[j].state = "done" => j = k
    BY <1>1
  <2> QED
    BY <1>1, <1>3, <2>1, <2>2 DEF TellsAll, Conditional
<1>7. Speaks(extra, <<>>)
  BY <1>3, <1>4, <1>5, <1>6, SpeaksEmpty DEF Speaks
<1> QED
  BY <1>1, <1>7

LEMMA MarketSpeaks ==
  ASSUME OrdersInv, FillsInv, Market
  PROVE  \E extra, algo : Speaks(extra, algo) /\ Send(extra, algo)
BY ExecuteSpeaks, ExpireSpeaks, TriggerSpeaks DEF Market

LEMMA WithdrawSpeaks ==
  ASSUME OrdersInv, FillsInv, NEW numbers \in SUBSET {k \in DOMAIN orders : IsOpen(k)},
         Withdraw(numbers)
  PROVE  \E extra, algo : Speaks(extra, algo) /\ Send(extra, algo)
<1> DEFINE R == {k \in numbers : Conditional(orders[k].kind) = FALSE}
           A == {k \in numbers : Conditional(orders[k].kind) = TRUE}
<1>1. PICK regular \in Bijection(1..Cardinality(R), R) :
        \E algo \in Bijection(1..Cardinality(A), A) :
          Send([i \in DOMAIN regular |-> OrderUpdate(regular[i], "CANCELED", FALSE)],
               [i \in DOMAIN algo |-> AlgoUpdate(orders[algo[i]].id, "CANCELED")])
  BY DEF Withdraw
<1>2. PICK conditional \in Bijection(1..Cardinality(A), A) :
        Send([i \in DOMAIN regular |-> OrderUpdate(regular[i], "CANCELED", FALSE)],
             [i \in DOMAIN conditional |-> AlgoUpdate(orders[conditional[i]].id, "CANCELED")])
  BY <1>1
<1>3. /\ \A k \in R : k \in numbers /\ orders[k].kind # "stop"
      /\ \A k \in A : k \in numbers /\ orders[k].kind = "stop"
      /\ \A k \in numbers : /\ orders[k].kind # "stop" => k \in R
                            /\ orders[k].kind = "stop" => k \in A
      /\ \A k \in numbers : k \in DOMAIN orders /\ orders[k].state = "open"
  BY DEF IsOpen, Conditional
<1>4. Sequence(orders) /\ R \subseteq DOMAIN orders /\ A \subseteq DOMAIN orders
  BY DEF OrdersInv
<1> HIDE DEF R, A
<1>5. /\ Cardinality(R) \in Nat /\ DOMAIN regular = 1..Cardinality(R)
      /\ \A i \in DOMAIN regular : regular[i] \in R
      /\ \A k \in R : \E i \in DOMAIN regular : regular[i] = k
  BY <1>1, <1>4, Listing
<1>6. /\ Cardinality(A) \in Nat /\ DOMAIN conditional = 1..Cardinality(A)
      /\ \A i \in DOMAIN conditional : conditional[i] \in A
      /\ \A k \in A : \E i \in DOMAIN conditional : conditional[i] = k
  BY <1>2, <1>4, Listing
<1> DEFINE extra == [i \in DOMAIN regular |-> OrderUpdate(regular[i], "CANCELED", FALSE)]
           algo == [i \in DOMAIN conditional |-> AlgoUpdate(orders[conditional[i]].id, "CANCELED")]
<1>7. /\ DOMAIN extra = DOMAIN regular
      /\ \A i \in DOMAIN regular :
           LET m == extra[i]
           IN /\ m.type = "order" /\ m.order = regular[i] /\ m.state = "CANCELED"
              /\ m.id = orders'[regular[i]].id /\ m.kind = orders'[regular[i]].kind
  BY DEF OrderUpdate
<1>8. /\ DOMAIN algo = DOMAIN conditional
      /\ \A i \in DOMAIN conditional :
           algo[i].id = orders[conditional[i]].id /\ algo[i].state = "CANCELED"
  BY DEF AlgoUpdate
<1>9. /\ extra = [i \in 1..Cardinality(R) |-> extra[i]]
      /\ algo = [i \in 1..Cardinality(A) |-> algo[i]]
      /\ Send(extra, algo)
  BY <1>2, <1>5, <1>6
<1> HIDE DEF extra, algo
<1>10. Sequence(extra) /\ Sequence(algo)
  BY <1>5, <1>6, <1>9, FunctionSequence
<1>11. Withdrawn(numbers) /\ xposition' = xposition
  BY DEF Withdraw
<1>12. /\ DOMAIN orders' = DOMAIN orders
       /\ \A k \in DOMAIN orders :
            /\ k \notin numbers => orders'[k] = orders[k]
            /\ k \in numbers => orders'[k].state = "done"
            /\ orders'[k].kind = orders[k].kind
            /\ orders'[k].id = orders[k].id
  BY <1>11, WithdrawnOrders
<1>13. SpeaksOfPosition(extra)
  BY <1>7, <1>11 DEF SpeaksOfPosition
<1>14. SpeaksOfOrders(extra)
  <2> SUFFICES ASSUME NEW i \in DOMAIN extra, NEW k, k = extra[i].order
               PROVE  /\ k \in DOMAIN orders' /\ extra[i].id = orders'[k].id
                      /\ extra[i].kind = orders'[k].kind
                      /\ extra[i].state # Ack
                      /\ k \in DOMAIN orders /\ orders[k].state = "open"
                      /\ orders'[k].state = "done"
    BY DEF SpeaksOfOrders
  <2>1. k \in R /\ extra[i].state = "CANCELED"
        /\ extra[i].id = orders'[k].id /\ extra[i].kind = orders'[k].kind
    BY <1>5, <1>7
  <2> QED
    BY <1>3, <1>12, <2>1 DEF Ack
<1>15. SpeaksOfAlgo(algo)
  <2> SUFFICES ASSUME NEW i \in DOMAIN algo, NEW k, k = conditional[i]
               PROVE  /\ k \in DOMAIN orders' /\ orders'[k].id = algo[i].id
                      /\ orders'[k].kind = "stop"
                      /\ algo[i].state # Ack
                      /\ k \in DOMAIN orders /\ orders[k].state = "open"
                      /\ orders'[k].state = "done"
    BY DEF SpeaksOfAlgo
  <2>1. k \in A /\ algo[i].state = "CANCELED" /\ algo[i].id = orders[k].id
    BY <1>6, <1>8
  <2> QED
    BY <1>3, <1>12, <2>1 DEF Ack
<1>16. TellsAll(extra, algo)
  <2> SUFFICES ASSUME NEW k \in DOMAIN orders, orders[k].state = "open", orders'[k].state = "done"
               PROVE  /\ orders[k].kind = "limit" => \E i \in DOMAIN extra : Removes(extra[i], orders[k].id)
                      /\ orders[k].kind = "stop" => \E i \in DOMAIN algo : AlgoRemoves(algo[i], orders[k].id)
    BY <1>12 DEF TellsAll
  <2>1. k \in numbers
    BY <1>12
  <2>2. ASSUME orders[k].kind = "limit" PROVE \E i \in DOMAIN extra : Removes(extra[i], orders[k].id)
    <3>1. PICK i \in DOMAIN regular : regular[i] = k
      BY <1>3, <1>5, <2>1, <2>2
    <3> QED
      BY <1>7, <1>12, <3>1 DEF Removes, Terminal
  <2>3. ASSUME orders[k].kind = "stop" PROVE \E i \in DOMAIN algo : AlgoRemoves(algo[i], orders[k].id)
    <3>1. PICK i \in DOMAIN conditional : conditional[i] = k
      BY <1>3, <1>6, <2>1, <2>3
    <3> QED
      BY <1>8, <3>1 DEF AlgoRemoves, Gone
  <2> QED
    BY <2>2, <2>3
<1> QED
  BY <1>9, <1>10, <1>13, <1>14, <1>15, <1>16 DEF Speaks

-----------------------------------------------------------------------------
(* The pool.  A request that ends has been reported or has done its work.  *)
LEMMA IsOfStays ==
  ASSUME DecisionsGrow, NEW id, NEW kind, IsOf(id, kind)
  PROVE  IsOf(id, kind)'
BY DEF DecisionsGrow, IsOf, Rests

LEMMA PlacedGrows ==
  ASSUME DecisionsInv, DecisionsInv', PlacedGrow,
         \A n \in DOMAIN decisions : decisions'[n].closing = decisions[n].closing
  PROVE  DecisionsGrow
BY DEF PlacedGrow, DecisionsGrow

ActionsStay == \A k \in DOMAIN requests' : \E j \in DOMAIN requests :
  requests'[k].action = requests[j].action
KeptBut(i) ==
  /\ reported \subseteq reported'
  /\ \A j \in DOMAIN requests : j # i =>
       requests[j].decision \in reported' \/ \E k \in DOMAIN requests' :
                                               requests'[k].decision = requests[j].decision

LEMMA HintsStay ==
  ASSUME HintsInv, DecisionsGrow, ActionsStay
  PROVE  HintsInv'
<1> SUFFICES ASSUME NEW k \in DOMAIN requests', NEW a, a = requests'[k].action,
                    a.kind = "cancel", a.id # All
             PROVE  /\ a.hint = "algo" => IsOf(a.id, "stop")'
                    /\ a.hint = "regular" => IsOf(a.id, "limit")'
  BY DEF HintsInv
<1>1. PICK j \in DOMAIN requests : a = requests[j].action
  BY DEF ActionsStay
<1>2. /\ a.hint = "algo" => IsOf(a.id, "stop")
      /\ a.hint = "regular" => IsOf(a.id, "limit")
  BY <1>1 DEF HintsInv
<1>3. PICK id : id = a.id
  OBVIOUS
<1>4. /\ IsOf(id, "stop") => IsOf(id, "stop")'
      /\ IsOf(id, "limit") => IsOf(id, "limit")'
  BY IsOfStays
<1> QED
  BY <1>2, <1>3, <1>4

LEMMA BookStays ==
  ASSUME BookInv, DecisionsGrow, book' \subseteq book
  PROVE  BookInv'
<1> SUFFICES ASSUME NEW o \in book' PROVE IsOf(o[1], o[2])'
  BY DEF BookInv
<1>1. PICK id, kind : id = o[1] /\ kind = o[2]
  OBVIOUS
<1>2. IsOf(id, kind)
  BY <1>1 DEF BookInv
<1>3. IsOf(id, kind)'
  BY <1>2, IsOfStays
<1> QED
  BY <1>1, <1>3

LEMMA CancelsKept ==
  ASSUME PlacedGrow, NEW i, KeptBut(i),
         \/ i \notin DOMAIN requests
         \/ requests[i].decision \in reported'
         \/ \E k \in DOMAIN requests' : requests'[k].decision = requests[i].decision
         \/ \A id \in Ids : AcceptedOnce(id) /\ OnExchange(id)' => ~Cancels(requests[i].decision, id)
  PROVE  CancelsStay
<1> SUFFICES ASSUME NEW id \in Ids, AcceptedOnce(id), OnExchange(id)', CancelTold(id)
             PROVE  CancelTold(id)'
  BY DEF CancelsStay
<1>1. PICK n \in DOMAIN decisions : Cancels(n, id) /\ (n \in reported \/ Asked(n))
  BY DEF CancelTold
<1>2. n \in DOMAIN decisions' /\ Cancels(n, id)'
  BY <1>1 DEF PlacedGrow, Cancels
<1>3. CASE n \in reported
  BY <1>2, <1>3 DEF CancelTold, KeptBut
<1>4. CASE Asked(n)
  <2>1. PICK j \in DOMAIN requests : requests[j].decision = n
    BY <1>4 DEF Asked
  <2>2. \/ requests[j].decision \in reported'
        \/ \E k \in DOMAIN requests' : requests'[k].decision = requests[j].decision
    BY <1>1, <2>1 DEF KeptBut
  <2> QED
    BY <1>2, <2>1, <2>2 DEF CancelTold, Asked
<1> QED
  BY <1>1, <1>3, <1>4

LEMMA FinishedKeeps ==
  ASSUME RequestsInv, NEW i \in DOMAIN requests, Finish(i), reported \subseteq reported'
  PROVE  KeptBut(i) /\ ActionsStay
<1>1. \A j \in DOMAIN requests :
        j # i => \E k \in DOMAIN requests' : requests'[k].decision = requests[j].decision
  BY OneFinished
<1>2. ActionsStay
  BY RemovedSequence DEF RequestsInv, Finish, ActionsStay
<1> QED
  BY <1>1, <1>2 DEF KeptBut

LEMMA FailStays ==
  ASSUME RequestsInv, NEW i \in DOMAIN requests, Fail(i)
  PROVE  KeptBut(i) /\ ActionsStay /\ requests[i].decision \in reported'
<1>1. reported \subseteq reported' /\ requests[i].decision \in reported' /\ Finish(i)
  BY DEF Fail, Report, RequestsInv
<1> QED
  BY <1>1, FinishedKeeps

LEMMA FailedTryStays ==
  ASSUME RequestsInv, NEW i \in DOMAIN requests, FailedTry(i)
  PROVE  KeptBut(i) /\ ActionsStay
<1>1. CASE Fail(i)
  BY <1>1, FailStays
<1>2. CASE ~Fail(i)
  <2>1. requests' = [requests EXCEPT ![i].tries = @ + 1] /\ reported' = reported
    BY <1>2 DEF FailedTry
  <2>2. /\ DOMAIN requests' = DOMAIN requests
        /\ \A j \in DOMAIN requests : j # i => requests'[j] = requests[j]
        /\ requests'[i] = [requests[i] EXCEPT !.tries = @ + 1]
    BY <2>1
  <2>3. requests[i] = [action |-> requests[i].action, tries |-> requests[i].tries,
                       waited |-> requests[i].waited, decision |-> requests[i].decision]
    BY DEF RequestsInv, IsRequest
  <2>4. requests'[i].action = requests[i].action
    BY <2>2, <2>3
  <2>5. ActionsStay
    BY <2>2, <2>4 DEF ActionsStay
  <2>6. KeptBut(i)
    BY <2>1, <2>2 DEF KeptBut
  <2> QED
    BY <2>5, <2>6
<1> QED
  BY <1>1, <1>2

LEMMA OneKindOfId ==
  ASSUME IdsInv, NEW id, NEW a, NEW b, IsOf(id, a), IsOf(id, b)
  PROVE  a = b
BY DEF IdsInv, IsOf, Rests

LEMMA OrderTriedStays ==
  ASSUME RequestsInv, PlacedGrow, NEW i \in DOMAIN requests, TryOrder(i)
  PROVE  CancelsStay /\ ActionsStay
<1>1. \A id : ~Cancels(requests[i].decision, id)
  BY DEF RequestsInv, IsRequest, TryOrder, Cancels
<1>2. FailedTry(i) \/ (Finish(i) /\ UNCHANGED reported)
  BY DEF TryOrder
<1>3. KeptBut(i) /\ ActionsStay
  BY <1>2, FailedTryStays, FinishedKeeps
<1> QED
  BY <1>1, <1>3, CancelsKept

(* A cancel that succeeds withdraws the order with its id, whatever the    *)
(* book told the client.                                                   *)
LEMMA FoundIsOpen ==
  ASSUME OrdersInv, IdsInv, AcceptedInv, HintsInv,
         NEW i \in DOMAIN requests, NEW id \in Ids, AcceptedOnce(id),
         requests[i].action.kind = "cancel", requests[i].action.id = id, id # All,
         NEW k \in DOMAIN orders, IsOpen(k), orders[k].id = id, orders[k].kind # "market"
  PROVE  k \in Found(requests[i].action)
<1> DEFINE a == requests[i].action
           In(c) == {j \in DOMAIN orders :
                       IsOpen(j) /\ orders[j].id = a.id /\ Conditional(orders[j].kind) = c}
<1>1. orders[k].kind \in {"limit", "stop"} /\ IsOf(id, orders[k].kind)
  BY OrderBelongs, NotMarketRests
<1>2. /\ orders[k].kind = "limit" => k \in In(FALSE)
      /\ orders[k].kind = "stop" => k \in In(TRUE)
  BY DEF Conditional
<1>3. /\ a.hint = "algo" => IsOf(id, "stop")
      /\ a.hint = "regular" => IsOf(id, "limit")
  BY DEF HintsInv
<1>4. CASE a.hint = "regular"
  <2>1. orders[k].kind = "limit"
    BY <1>1, <1>3, <1>4, OneKindOfId
  <2> QED
    BY <1>2, <1>4, <2>1 DEF Found
<1>5. CASE a.hint = "algo"
  <2>1. orders[k].kind = "stop"
    BY <1>1, <1>3, <1>5, OneKindOfId
  <2> QED
    BY <1>2, <1>5, <2>1 DEF Found
<1>6. CASE a.hint \notin {"regular", "algo"}
  <2>1. Found(a) = IF In(FALSE) # {} THEN In(FALSE) ELSE In(TRUE)
    BY <1>6 DEF Found
  <2>2. CASE orders[k].kind = "limit"
    BY <1>2, <2>1, <2>2
  <2>3. CASE orders[k].kind = "stop"
    <3>1. In(FALSE) = {}
      <4> SUFFICES ASSUME NEW j \in In(FALSE) PROVE FALSE
        OBVIOUS
      <4>1. j = k
        BY OnlyOpen DEF IsOpen
      <4> QED
        BY <2>3, <4>1 DEF Conditional
    <3> QED
      BY <1>2, <2>1, <2>3, <3>1
  <2> QED
    BY <1>1, <2>2, <2>3
<1> QED
  BY <1>4, <1>5, <1>6

LEMMA CancelTriedStays ==
  ASSUME ExecutorInv, RecordInv, PairingInv, HintsInv, PlacedGrow,
         NEW i \in DOMAIN requests, TryCancel(i)
  PROVE  CancelsStay /\ ActionsStay
<1> DEFINE r == requests[i]
<1>1. /\ OrdersInv /\ RequestsInv /\ FillsInv /\ IdsInv /\ AcceptedInv
      /\ r.action.kind = "cancel" /\ r.action.id = decisions[r.decision].id
  BY DEF ExecutorInv, RecordInv, PairingInv, RequestsInv, IsRequest, TryCancel
<1>2. CASE Fail(i)
  BY <1>1, <1>2, FailStays, CancelsKept
<1>3. CASE /\ r.action.id # All /\ Withdraw(Found(r.action))
           /\ Finish(i) /\ UNCHANGED reported
  <2>1. KeptBut(i) /\ ActionsStay
    BY <1>1, <1>3, FinishedKeeps
  <2>2. ASSUME NEW id \in Ids, AcceptedOnce(id), OnExchange(id)', Cancels(r.decision, id)
        PROVE  FALSE
    <3>1. r.action.id = id /\ id # All
      BY <1>1, <1>3, <2>2 DEF Cancels
    <3>2. PICK k \in DOMAIN orders' :
            orders'[k].state = "open" /\ orders'[k].id = id /\ orders'[k].kind # "market"
      BY <2>2 DEF OnExchange, IsOpen
    <3>3. PICK found : found = Found(r.action)
      OBVIOUS
    <3>4. Withdrawn(found)
      BY <1>3, <3>3 DEF Withdraw
    <3>5. /\ k \in DOMAIN orders /\ k \notin found
          /\ orders[k].state = "open" /\ orders[k].id = id /\ orders[k].kind # "market"
      BY <1>1, <3>2, <3>4, WithdrawnOrders
    <3>6. k \in Found(r.action)
      BY <1>1, <2>2, <3>1, <3>5, FoundIsOpen DEF IsOpen
    <3> QED
      BY <3>3, <3>5, <3>6
  <2> QED
    BY <2>1, <2>2, CancelsKept
<1>4. CASE /\ \E asked \in SUBSET BOOLEAN :
                /\ asked = BOOLEAN
                /\ Withdraw(UNION {{k \in DOMAIN orders :
                                      IsOpen(k) /\ Conditional(orders[k].kind) = conditional} :
                                    conditional \in asked})
           /\ Finish(i) /\ UNCHANGED reported
  <2>1. KeptBut(i) /\ ActionsStay
    BY <1>1, <1>4, FinishedKeeps
  <2>2. PICK found : /\ found = UNION {{k \in DOMAIN orders :
                                          IsOpen(k) /\ Conditional(orders[k].kind) = conditional} :
                                        conditional \in BOOLEAN}
                     /\ Withdrawn(found)
    BY <1>4 DEF Withdraw
  <2>3. ASSUME NEW id \in Ids, OnExchange(id)' PROVE FALSE
    <3>1. PICK k \in DOMAIN orders' : orders'[k].state = "open"
      BY <2>3 DEF OnExchange, IsOpen
    <3>2. k \in DOMAIN orders /\ k \notin found /\ orders[k].state = "open"
      BY <1>1, <2>2, <3>1, WithdrawnOrders
    <3>3. Conditional(orders[k].kind) \in BOOLEAN
      BY DEF Conditional
    <3> QED
      BY <2>2, <3>2, <3>3 DEF IsOpen
  <2> QED
    BY <2>1, <2>3, CancelsKept
<1> QED
  BY <1>2, <1>3, <1>4 DEF TryCancel, CancelOne, CancelAll

LEMMA QuietKeepsMirror ==
  ASSUME MirrorInv, PlacedGrow, CancelsStay, missed => missed',
         UNCHANGED <<xposition, orders, stream, algoStream, account>>
  PROVE  PositionInv' /\ NewsInv' /\ ListingInv'
<1>1. PositionInv' /\ NewsInv'
  BY DEF MirrorInv, PositionInv, NewsInv, account
<1>2. ASSUME ~missed', NEW id \in Ids, AcceptedOnce(id)'
      PROVE  Mirrored(id)'
  <2>1. AcceptedOnce(id)
    BY <1>2 DEF AcceptedOnce, PlacedGrow
  <2>2. Mirrored(id)
    BY <1>2, <2>1 DEF MirrorInv, ListingInv
  <2>3. OnExchange(id)' <=> OnExchange(id)
    BY DEF OnExchange, IsOpen
  <2>4. OnExchange(id) /\ CancelTold(id) => CancelTold(id)'
    BY <2>1, <2>3 DEF CancelsStay
  <2>5. OnExchange(id) => Shown(id)'
    BY <2>2, <2>4 DEF Mirrored, Shown, Listed, NotAdded, NotAlgoAdded, account
  <2>6. ~OnExchange(id) => Hidden(id)'
    BY <2>2 DEF Mirrored, Hidden, Listed, NotAdded, NotAlgoAdded, RemovedLast,
                AlgoRemovedLast, account
  <2> QED
    BY <2>3, <2>5, <2>6 DEF Mirrored
<1> QED
  BY <1>1, <1>2 DEF ListingInv

LEMMA WorkGrows ==
  ASSUME ExecutorInv, Work
  PROVE  DecisionsGrow
<1>1. decisions' = decisions \/ \E d \in DOMAIN decisions : CountPlaced(d)
  BY DEF ExecutorInv, RequestsInv, IsRequest, Work, TryOrder, TryCancel
<1> QED
  BY <1>1, PlacedCounted DEF DecisionsGrow, ExecutorInv

LEMMA WorkKeepsMirror ==
  ASSUME ExecutorInv, ExecutorInv', RecordInv, PairingInv, MirrorInv, Work
  PROVE  MirrorInv'
<1>1. UNCHANGED <<book, position>>
  BY DEF Work, account
<1>2. /\ DecisionsGrow /\ OrdersInv /\ DecisionsInv /\ RequestsInv /\ FillsInv /\ AcceptedInv
      /\ Sequence(algoStream) /\ HintsInv
  BY WorkGrows DEF ExecutorInv, RecordInv, PairingInv, AlgoInv, MirrorInv
<1>3. PICK i \in DOMAIN requests : TryOrder(i) \/ TryCancel(i)
  BY DEF Work
<1>4. CASE UNCHANGED <<exchange, decisions>>
  <2>1. PlacedGrow
    BY <1>2, <1>4, PlacedSame
  <2>2. CancelsStay /\ ActionsStay
    BY <1>2, <1>3, <2>1, OrderTriedStays, CancelTriedStays
  <2>3. PositionInv' /\ NewsInv' /\ ListingInv'
    BY <1>1, <1>4, <2>1, <2>2, QuietKeepsMirror DEF account, exchange
  <2> QED
    BY <1>1, <1>2, <2>2, <2>3, HintsStay, BookStays DEF MirrorInv
<1>5. CASE \E a : \E d \in DOMAIN decisions : Place(a, d) /\ CountPlaced(d)
  <2>1. PlacedGrow /\ NewOrders
    BY <1>2, <1>5, PlacePairs
  <2>2. OrdersGrow
    BY <1>2, <1>5, PlaceSays
  <2>3. CancelsStay /\ ActionsStay
    BY <1>2, <1>3, <2>1, OrderTriedStays, CancelTriedStays
  <2>4. \E extra, algo : Speaks(extra, algo) /\ Send(extra, algo)
    BY <1>2, <1>5, PlaceSpeaks
  <2>5. PositionInv' /\ NewsInv' /\ ListingInv'
    BY <1>1, <2>1, <2>2, <2>3, <2>4, ExchangeKeepsMirror
  <2> QED
    BY <1>1, <1>2, <2>3, <2>5, HintsStay, BookStays DEF MirrorInv
<1>6. CASE /\ \E numbers \in SUBSET {k \in DOMAIN orders : IsOpen(k)} : Withdraw(numbers)
           /\ UNCHANGED decisions
  <2>1. PlacedGrow /\ NewOrders
    BY <1>2, <1>6, WithdrawPairs, PlacedSame
  <2>2. OrdersGrow
    BY <1>2, <1>6, WithdrawSays
  <2>3. CancelsStay /\ ActionsStay
    BY <1>2, <1>3, <2>1, OrderTriedStays, CancelTriedStays
  <2>4. \E extra, algo : Speaks(extra, algo) /\ Send(extra, algo)
    BY <1>2, <1>6, WithdrawSpeaks
  <2>5. PositionInv' /\ NewsInv' /\ ListingInv'
    BY <1>1, <2>1, <2>2, <2>3, <2>4, ExchangeKeepsMirror
  <2> QED
    BY <1>1, <1>2, <2>3, <2>5, HintsStay, BookStays DEF MirrorInv
<1>7. CASE TryOrder(i)
  <2>1. requests[i].decision \in DOMAIN decisions
    BY <1>2 DEF RequestsInv, IsRequest
  <2> QED
    BY <1>4, <1>5, <1>7, <2>1 DEF TryOrder
<1>8. CASE TryCancel(i)
  <2>1. CASE CancelOne(i)
    <3>1. Found(requests[i].action) \in SUBSET {k \in DOMAIN orders : IsOpen(k)}
      BY DEF Found
    <3> QED
      BY <1>4, <1>6, <1>8, <2>1, <3>1 DEF CancelOne, TryCancel
  <2>2. CASE CancelAll(i)
    <3> DEFINE openIn(conditional) ==
          {k \in DOMAIN orders : IsOpen(k) /\ Conditional(orders[k].kind) = conditional}
    <3>1. PICK asked \in SUBSET BOOLEAN :
            Withdraw(UNION {openIn(conditional) : conditional \in asked})
      BY <2>2 DEF CancelAll
    <3>2. UNION {openIn(conditional) : conditional \in asked}
            \in SUBSET {k \in DOMAIN orders : IsOpen(k)}
      OBVIOUS
    <3> QED
      BY <1>6, <1>8, <3>1, <3>2 DEF TryCancel
  <2> QED
    BY <1>8, <2>1, <2>2 DEF TryCancel
<1> QED
  BY <1>3, <1>7, <1>8

-----------------------------------------------------------------------------
(* The engine, and the end of a wait. *)
LEMMA SameKeepsMirror ==
  ASSUME DecisionsInv, MirrorInv, missed => missed',
         UNCHANGED <<xposition, orders, stream, algoStream, account,
                     decisions, requests, reported>>
  PROVE  MirrorInv'
<1>1. PlacedGrow
  BY PlacedSame
<1>2. CancelsStay
  BY DEF CancelsStay, CancelTold, Cancels, Asked
<1>3. PositionInv' /\ NewsInv' /\ ListingInv'
  BY <1>1, <1>2, QuietKeepsMirror
<1>4. DecisionsGrow /\ ActionsStay /\ book' \subseteq book
  BY DEF DecisionsGrow, ActionsStay, account
<1> QED
  BY <1>3, <1>4, HintsStay, BookStays DEF MirrorInv

LEMMA TimeOutKeepsMirror ==
  ASSUME ExecutorInv, MirrorInv, NEW i \in DOMAIN requests, TimeOut(i)
  PROVE  MirrorInv'
<1>1. /\ DecisionsInv /\ RequestsInv
      /\ UNCHANGED <<exchange, account, decisions>>
      /\ reported \subseteq reported' /\ requests[i].decision \in reported'
  BY DEF ExecutorInv, TimeOut, Report
<1>2. KeptBut(i) /\ ActionsStay
  <2>1. CASE i > Workers
    BY <1>1, <2>1, FinishedKeeps DEF TimeOut
  <2>2. CASE ~(i > Workers)
    <3>1. requests' = [requests EXCEPT ![i].waited = FALSE]
      BY <2>2 DEF TimeOut
    <3>2. /\ DOMAIN requests' = DOMAIN requests
          /\ \A j \in DOMAIN requests : j # i => requests'[j] = requests[j]
          /\ requests'[i] = [requests[i] EXCEPT !.waited = FALSE]
      BY <3>1
    <3>3. requests[i] = [action |-> requests[i].action, tries |-> requests[i].tries,
                         waited |-> requests[i].waited, decision |-> requests[i].decision]
      BY <1>1 DEF RequestsInv, IsRequest
    <3>4. requests'[i].action = requests[i].action
      BY <3>2, <3>3
    <3>5. ActionsStay
      BY <3>2, <3>4 DEF ActionsStay
    <3>6. KeptBut(i)
      BY <1>1, <3>2 DEF KeptBut
    <3> QED
      BY <3>5, <3>6
  <2> QED
    BY <2>1, <2>2
<1>3. PlacedGrow
  BY <1>1, PlacedSame
<1>4. CancelsStay
  BY <1>1, <1>2, <1>3, CancelsKept
<1>5. PositionInv' /\ NewsInv' /\ ListingInv'
  BY <1>1, <1>3, <1>4, QuietKeepsMirror DEF exchange
<1>6. DecisionsGrow /\ book' \subseteq book
  BY <1>1 DEF DecisionsGrow, account
<1> QED
  BY <1>2, <1>5, <1>6, HintsStay, BookStays DEF MirrorInv

(* A decision is added, and its request; a cancel empties the local book. *)
LEMMA DecidedKeepsMirror ==
  ASSUME ExecutorInv, MirrorInv, NEW d, NEW a, Decide(d, a),
         book' \subseteq book,
         \A o \in book : o \notin book' => d.kind = "cancel" /\ d.id \in {o[1], All},
         a.kind = "cancel" /\ a.id # All =>
           (a.hint = "algo" => IsOf(a.id, "stop")) /\ (a.hint = "regular" => IsOf(a.id, "limit"))
  PROVE  MirrorInv'
<1>1. /\ UNCHANGED <<exchange, position, reported>> /\ Sequence(requests)
      /\ requests' = Append(requests, [action |-> a, tries |-> 0, waited |-> TRUE,
                                       decision |-> Len(decisions')])
  BY DEF Decide, ExecutorInv, RequestsInv
<1>2. Added(d)
  BY DecideAdds
<1>3. PICK last : last = Len(decisions')
  OBVIOUS
<1>4. /\ last \in DOMAIN decisions' /\ decisions'[last] = d
      /\ \A n \in DOMAIN decisions : n \in DOMAIN decisions' /\ decisions'[n] = decisions[n]
  BY <1>2, <1>3 DEF Added
<1>5. DecisionsGrow
  BY <1>4 DEF DecisionsGrow
<1> DEFINE request == [action |-> a, tries |-> 0, waited |-> TRUE, decision |-> last]
<1>6. request.action = a /\ request.decision = last /\ requests' = Append(requests, request)
  BY <1>1, <1>3
<1> HIDE DEF request
<1>7. PICK new \in DOMAIN requests' :
        /\ requests'[new].action = a /\ requests'[new].decision = last
        /\ DOMAIN requests' = DOMAIN requests \cup {new}
        /\ \A i \in DOMAIN requests : requests'[i] = requests[i]
  <2>1. /\ DOMAIN requests' = DOMAIN requests \cup {Len(requests) + 1}
        /\ \A i \in DOMAIN requests : requests'[i] = requests[i]
        /\ requests'[Len(requests) + 1] = request
    BY <1>1, <1>6, AppendSequence
  <2> QED
    BY <1>6, <2>1
<1>8. \A id : CancelTold(id) => CancelTold(id)'
  BY <1>1, <1>4, <1>7 DEF CancelTold, Cancels, Asked
<1>9. \A id : Listed(id) => Listed(id)' \/ CancelTold(id)'
  <2> SUFFICES ASSUME NEW o \in book, o \notin book' PROVE CancelTold(o[1])'
    BY DEF Listed
  <2>1. PICK id : id = o[1]
    OBVIOUS
  <2>2. Cancels(last, id)' /\ Asked(last)'
    BY <1>4, <1>7, <2>1 DEF Cancels, Asked
  <2> QED
    BY <1>4, <2>1, <2>2 DEF CancelTold
<1>10. \A id : Listed(id)' => Listed(id)
  BY DEF Listed
<1>11. ListingInv'
  <2> SUFFICES ASSUME ~missed, NEW id \in Ids, AcceptedOnce(id)' PROVE Mirrored(id)'
    BY <1>1 DEF ListingInv, exchange
  <2>1. AcceptedOnce(id)
    BY <1>4 DEF AcceptedOnce
  <2>2. Mirrored(id)
    BY <2>1 DEF MirrorInv, ListingInv
  <2>3. OnExchange(id)' <=> OnExchange(id)
    BY <1>1 DEF OnExchange, IsOpen, exchange
  <2>4. Shown(id) => Shown(id)'
    BY <1>1, <1>8, <1>9 DEF Shown, NotAdded, NotAlgoAdded, exchange
  <2>5. Hidden(id) => Hidden(id)'
    BY <1>1, <1>10 DEF Hidden, NotAdded, NotAlgoAdded, RemovedLast, AlgoRemovedLast, exchange
  <2> QED
    BY <2>2, <2>3, <2>4, <2>5 DEF Mirrored
<1>12. PositionInv' /\ NewsInv'
  BY <1>1 DEF MirrorInv, PositionInv, NewsInv, exchange
<1>13. BookInv'
  BY <1>5, BookStays DEF MirrorInv
<1>14. HintsInv'
  <2> SUFFICES ASSUME NEW i \in DOMAIN requests', NEW b, b = requests'[i].action,
                      b.kind = "cancel", b.id # All
               PROVE  /\ b.hint = "algo" => IsOf(b.id, "stop")'
                      /\ b.hint = "regular" => IsOf(b.id, "limit")'
    BY DEF HintsInv
  <2>1. /\ b.hint = "algo" => IsOf(b.id, "stop")
        /\ b.hint = "regular" => IsOf(b.id, "limit")
    <3>1. CASE i \in DOMAIN requests
      BY <1>7, <3>1 DEF MirrorInv, HintsInv
    <3>2. CASE i = new
      BY <1>7, <3>2
    <3> QED
      BY <1>7, <3>1, <3>2
  <2>2. PICK id : id = b.id
    OBVIOUS
  <2>3. /\ IsOf(id, "stop") => IsOf(id, "stop")'
        /\ IsOf(id, "limit") => IsOf(id, "limit")'
    BY <1>5, IsOfStays
  <2> QED
    BY <2>1, <2>2, <2>3
<1> QED
  BY <1>11, <1>12, <1>13, <1>14 DEF MirrorInv

LEMMA SubmitKeepsMirror ==
  ASSUME ExecutorInv, PairingInv, MirrorInv, Submit
  PROVE  MirrorInv'
<1>1. ASSUME NEW quantity \in Quantities, SubmitMarket(quantity) PROVE MirrorInv'
  <2> DEFINE d == [kind |-> "market", id |-> NextId, closing |-> PureReduction(quantity),
                   placed |-> 0]
             a == [id |-> NextId, kind |-> "market", quantity |-> quantity,
                   reduce |-> SentReduceOnly(quantity)]
  <2>1. Decide(d, a) /\ a.kind # "cancel" /\ book' = book
    BY <1>1 DEF SubmitMarket
  <2> HIDE DEF d, a
  <2> QED
    BY <2>1, DecidedKeepsMirror
<1>2. ASSUME NEW a \in Resting, SubmitResting(a) PROVE MirrorInv'
  <2> DEFINE d == [kind |-> a.kind, id |-> a.id, closing |-> FALSE, placed |-> 0]
  <2>1. Decide(d, a) /\ a.kind # "cancel" /\ book' = book
    BY <1>2, ActionAssumption DEF SubmitResting
  <2> HIDE DEF d
  <2> QED
    BY <2>1, DecidedKeepsMirror
<1>3. ASSUME NEW id, SubmitCancel(id) PROVE MirrorInv'
  <2> DEFINE removed == {o \in book : id = All \/ o[1] = id}
             hint == CASE removed = {} -> "unknown"
                       [] \E o \in removed : Conditional(o[2]) -> "algo"
                       [] OTHER -> "regular"
             d == [kind |-> "cancel", id |-> id, closing |-> FALSE, placed |-> 0]
             a == [id |-> id, kind |-> "cancel", hint |-> hint]
  <2>1. Decide(d, a) /\ book' = book \ removed
    BY <1>3 DEF SubmitCancel
  <2>2. d.kind = "cancel" /\ d.id = id /\ a.id = id /\ a.hint = hint
    OBVIOUS
  <2>3. \A o \in removed : id = All \/ o[1] = id
    OBVIOUS
  <2>4. hint = "algo" => \E o \in removed : Conditional(o[2])
    OBVIOUS
  <2>5. hint = "regular" => removed # {} /\ \A o \in removed : ~Conditional(o[2])
    OBVIOUS
  <2>6. \A o \in removed : IsOf(o[1], o[2])
    BY DEF MirrorInv, BookInv
  <2>7. \A o \in removed : o[2] \in {"limit", "stop"}
    BY <2>6 DEF IsOf, Rests
  <2> HIDE DEF d, a, hint, removed
  <2>8. ASSUME id # All, hint = "algo" PROVE IsOf(id, "stop")
    <3>1. PICK o \in removed : Conditional(o[2])
      BY <2>4, <2>8
    <3> QED
      BY <2>3, <2>6, <2>8, <3>1 DEF Conditional
  <2>9. ASSUME id # All, hint = "regular" PROVE IsOf(id, "limit")
    <3>1. PICK o \in removed : ~Conditional(o[2])
      BY <2>5, <2>9
    <3>2. o[1] = id /\ o[2] = "limit"
      BY <2>3, <2>7, <2>9, <3>1 DEF Conditional
    <3> QED
      BY <2>6, <3>2
  <2> QED
    BY <2>1, <2>2, <2>3, <2>8, <2>9, DecidedKeepsMirror
<1> QED
  BY <1>1, <1>2, <1>3 DEF Submit

-----------------------------------------------------------------------------
(* The socket is lost; the process restarts. *)
LEMMA DropKeepsMirror ==
  ASSUME ExecutorInv, MirrorInv, Drop,
         UNCHANGED <<account, requests, reported, decisions>>
  PROVE  MirrorInv'
<1>1. /\ UNCHANGED <<xposition, orders>> /\ stream' = <<>> /\ algoStream' = <<>>
      /\ ~missed' => ~missed /\ stream = <<>> /\ algoStream = <<>>
  BY DEF Drop
<1>2. CASE ~missed'
  <2>1. UNCHANGED <<stream, algoStream>> /\ ~missed
    BY <1>1, <1>2
  <2> QED
    BY <1>1, <2>1, SameKeepsMirror DEF ExecutorInv
<1>3. CASE missed'
  <2>1. PositionInv' /\ ListingInv'
    BY <1>3 DEF PositionInv, ListingInv
  <2>2. NewsInv'
    BY <1>1, EmptySequence DEF NewsInv
  <2>3. DecisionsGrow /\ ActionsStay /\ book' \subseteq book
    BY DEF DecisionsGrow, ActionsStay, account
  <2> QED
    BY <2>1, <2>2, <2>3, HintsStay, BookStays DEF MirrorInv
<1> QED
  BY <1>2, <1>3

LEMMA RestartKeepsMirror ==
  ASSUME ExecutorInv, PairingInv, MirrorInv, Restart
  PROVE  MirrorInv'
<1>1. /\ OrdersInv /\ IdsInv /\ UNCHANGED <<xposition, orders, decisions>>
      /\ position' = xposition /\ requests' = <<>>
      /\ stream' = <<>> /\ algoStream' = <<>>
  BY DEF Restart, ExecutorInv, PairingInv
<1> DEFINE Read(answered) ==
      {j \in DOMAIN orders : IsOpen(j) /\ orders[j].kind # "market"
                             /\ Conditional(orders[j].kind) \in answered}
<1>2. PICK answered \in SUBSET BOOLEAN :
        /\ book' = {<<orders[k].id, orders[k].kind>> : k \in Read(answered)}
        /\ missed' = (answered # BOOLEAN)
  BY DEF Restart
<1>3. PositionInv' /\ NewsInv' /\ HintsInv'
  BY <1>1, EmptySequence DEF PositionInv, NewsInv, HintsInv
<1>4. BookInv'
  <2> SUFFICES ASSUME NEW k \in Read(answered)
               PROVE  IsOf(orders[k].id, orders[k].kind)'
    BY <1>1, <1>2 DEF BookInv
  <2>1. IsOf(orders[k].id, orders[k].kind)
    BY <1>1, OrderBelongs, NotMarketRests
  <2> QED
    BY <1>1, <2>1 DEF IsOf, Rests
<1>5. ASSUME ~missed', NEW id \in Ids PROVE Mirrored(id)'
  <2>1. \A k \in DOMAIN orders :
          k \in Read(answered) <=> IsOpen(k) /\ orders[k].kind # "market"
    BY <1>2, <1>5 DEF Conditional
  <2>2. Listed(id)' <=> \E k \in Read(answered) : orders[k].id = id
    <3>1. ASSUME Listed(id)' PROVE \E k \in Read(answered) : orders[k].id = id
      <4>1. PICK o \in book' : o[1] = id
        BY <3>1 DEF Listed
      <4> HIDE DEF Read
      <4> QED
        BY <1>2, <4>1
    <3>2. ASSUME NEW k \in Read(answered), orders[k].id = id PROVE Listed(id)'
      <4>1. <<orders[k].id, orders[k].kind>> \in book'
        BY <1>2, <3>2
      <4> QED
        BY <3>2, <4>1 DEF Listed
    <3> QED
      BY <3>1, <3>2
  <2>3. Listed(id)' <=> OnExchange(id)
    BY <2>1, <2>2 DEF OnExchange
  <2>4. OnExchange(id)' <=> OnExchange(id)
    BY <1>1 DEF OnExchange, IsOpen
  <2>5. Listed(id)' => Shown(id)'
    BY <1>1, EmptySequence DEF Shown
  <2>6. ~Listed(id)' => Hidden(id)'
    BY <1>1, EmptySequence DEF Hidden, NotAdded, NotAlgoAdded
  <2> QED
    BY <2>3, <2>4, <2>5, <2>6 DEF Mirrored
<1> QED
  BY <1>3, <1>4, <1>5 DEF MirrorInv, ListingInv

-----------------------------------------------------------------------------
(* The user data stream: what is left of the streams after a message.      *)
Unread == /\ orders' = orders /\ decisions' = decisions /\ requests' = requests
          /\ reported' = reported /\ xposition' = xposition /\ missed' = missed

LEMMA UnreadListing ==
  ASSUME MirrorInv, Unread,
         \A id \in Ids : (Shown(id) => Shown(id)') /\ (Hidden(id) => Hidden(id)')
  PROVE  ListingInv' /\ HintsInv'
<1>1. HintsInv'
  <2>1. DecisionsGrow /\ ActionsStay
    BY DEF Unread, DecisionsGrow, ActionsStay
  <2> QED
    BY <2>1, HintsStay DEF MirrorInv
<1>2. ASSUME ~missed', NEW id \in Ids, AcceptedOnce(id)' PROVE Mirrored(id)'
  <2>1. Mirrored(id)
    BY <1>2 DEF Unread, AcceptedOnce, MirrorInv, ListingInv
  <2>2. OnExchange(id)' <=> OnExchange(id)
    BY DEF Unread, OnExchange, IsOpen
  <2> QED
    BY <1>2, <2>1, <2>2 DEF Unread, Mirrored
<1> QED
  BY <1>1, <1>2 DEF ListingInv

LEMMA CancelToldStays ==
  ASSUME Unread, NEW id, CancelTold(id)
  PROVE  CancelTold(id)'
BY DEF Unread, CancelTold, Cancels, Asked

LEMMA ReadOfStream ==
  ASSUME MessagesInv, Received, NEW id
  PROVE  /\ NotAdded(id) => NotAdded(id)' /\ ~Adds(Head(stream), id)
         /\ ~NotAdded(id) => ~NotAdded(id)' \/ Adds(Head(stream), id)
         /\ RemovedLast(id) => RemovedLast(id)' \/ (NotAdded(id)' /\ Removes(Head(stream), id))
         /\ (\A i \in DOMAIN stream : ~Removes(stream[i], id)) =>
              ~Removes(Head(stream), id) /\ \A i \in DOMAIN stream' : ~Removes(stream'[i], id)
<1>1. /\ 1 \in DOMAIN stream /\ Head(stream) = stream[1]
      /\ \A i \in DOMAIN stream' :
           i \in Nat /\ i + 1 \in DOMAIN stream /\ i + 1 > 1 /\ stream'[i] = stream[i + 1]
      /\ \A j \in DOMAIN stream :
           j \in Nat /\ (j # 1 => j - 1 \in DOMAIN stream' /\ stream'[j - 1] = stream[j])
  BY ReceivedStream
<1>2. NotAdded(id) => NotAdded(id)' /\ ~Adds(Head(stream), id)
  BY <1>1 DEF NotAdded
<1>3. ~NotAdded(id) => ~NotAdded(id)' \/ Adds(Head(stream), id)
  BY <1>1 DEF NotAdded
<1>4. ASSUME RemovedLast(id)
      PROVE  RemovedLast(id)' \/ (NotAdded(id)' /\ Removes(Head(stream), id))
  <2>1. PICK i \in DOMAIN stream :
          Removes(stream[i], id) /\ \A j \in DOMAIN stream : Adds(stream[j], id) => j < i
    BY <1>4 DEF RemovedLast
  <2>2. \A j \in DOMAIN stream' : Adds(stream'[j], id) => j + 1 < i
    BY <1>1, <2>1
  <2>3. CASE i = 1
    BY <1>1, <2>1, <2>2, <2>3 DEF NotAdded
  <2>4. CASE i # 1
    <3>1. i - 1 \in DOMAIN stream' /\ Removes(stream'[i - 1], id)
      BY <1>1, <2>1, <2>4
    <3>2. \A j \in DOMAIN stream' : Adds(stream'[j], id) => j < i - 1
      BY <1>1, <2>2
    <3> QED
      BY <3>1, <3>2 DEF RemovedLast
  <2> QED
    BY <2>3, <2>4
<1>5. (\A i \in DOMAIN stream : ~Removes(stream[i], id)) =>
        ~Removes(Head(stream), id) /\ \A i \in DOMAIN stream' : ~Removes(stream'[i], id)
  BY <1>1
<1> QED
  BY <1>2, <1>3, <1>4, <1>5

AlgoReceived == algoStream # <<>> /\ algoStream' = Tail(algoStream)

LEMMA AlgoReceivedStream ==
  ASSUME Sequence(algoStream), AlgoReceived
  PROVE  /\ 1 \in DOMAIN algoStream /\ Head(algoStream) = algoStream[1]
         /\ \A i \in DOMAIN algoStream' :
              /\ i \in Nat /\ i + 1 \in DOMAIN algoStream /\ i + 1 > 1
              /\ algoStream'[i] = algoStream[i + 1]
         /\ \A j \in DOMAIN algoStream :
              j \in Nat /\ (j # 1 => j - 1 \in DOMAIN algoStream'
                                     /\ algoStream'[j - 1] = algoStream[j])
<1> DEFINE s == algoStream
           u == algoStream'
<1>1. Sequence(s) /\ s # <<>> /\ u = Tail(s)
  BY DEF AlgoReceived
<1>2. /\ 1 \in DOMAIN s /\ Head(s) = s[1] /\ DOMAIN s \subseteq Nat
      /\ \A i \in DOMAIN u : i + 1 \in DOMAIN s /\ i + 1 > 1 /\ u[i] = s[i + 1]
      /\ \A j \in DOMAIN s : j # 1 => j - 1 \in DOMAIN u /\ u[j - 1] = s[j]
      /\ DOMAIN u \subseteq Nat
  <2> HIDE DEF s, u
  <2> QED
    BY <1>1, TailSequence
<1> QED
  BY <1>2

LEMMA ReadOfAlgoStream ==
  ASSUME Sequence(algoStream), AlgoReceived, NEW id
  PROVE  /\ NotAlgoAdded(id) => NotAlgoAdded(id)' /\ ~AlgoAdds(Head(algoStream), id)
         /\ ~NotAlgoAdded(id) => ~NotAlgoAdded(id)' \/ AlgoAdds(Head(algoStream), id)
         /\ AlgoRemovedLast(id) =>
              AlgoRemovedLast(id)' \/ (NotAlgoAdded(id)' /\ AlgoRemoves(Head(algoStream), id))
         /\ (\A i \in DOMAIN algoStream : ~AlgoRemoves(algoStream[i], id)) =>
              /\ ~AlgoRemoves(Head(algoStream), id)
              /\ \A i \in DOMAIN algoStream' : ~AlgoRemoves(algoStream'[i], id)
<1>1. /\ 1 \in DOMAIN algoStream /\ Head(algoStream) = algoStream[1]
      /\ \A i \in DOMAIN algoStream' :
           /\ i \in Nat /\ i + 1 \in DOMAIN algoStream /\ i + 1 > 1
           /\ algoStream'[i] = algoStream[i + 1]
      /\ \A j \in DOMAIN algoStream :
           j \in Nat /\ (j # 1 => j - 1 \in DOMAIN algoStream'
                                  /\ algoStream'[j - 1] = algoStream[j])
  BY AlgoReceivedStream
<1>2. NotAlgoAdded(id) => NotAlgoAdded(id)' /\ ~AlgoAdds(Head(algoStream), id)
  BY <1>1 DEF NotAlgoAdded
<1>3. ~NotAlgoAdded(id) => ~NotAlgoAdded(id)' \/ AlgoAdds(Head(algoStream), id)
  BY <1>1 DEF NotAlgoAdded
<1>4. ASSUME AlgoRemovedLast(id)
      PROVE  AlgoRemovedLast(id)' \/ (NotAlgoAdded(id)' /\ AlgoRemoves(Head(algoStream), id))
  <2>1. PICK i \in DOMAIN algoStream :
          /\ AlgoRemoves(algoStream[i], id)
          /\ \A j \in DOMAIN algoStream : AlgoAdds(algoStream[j], id) => j < i
    BY <1>4 DEF AlgoRemovedLast
  <2>2. \A j \in DOMAIN algoStream' : AlgoAdds(algoStream'[j], id) => j + 1 < i
    BY <1>1, <2>1
  <2>3. CASE i = 1
    BY <1>1, <2>1, <2>2, <2>3 DEF NotAlgoAdded
  <2>4. CASE i # 1
    <3>1. i - 1 \in DOMAIN algoStream' /\ AlgoRemoves(algoStream'[i - 1], id)
      BY <1>1, <2>1, <2>4
    <3>2. \A j \in DOMAIN algoStream' : AlgoAdds(algoStream'[j], id) => j < i - 1
      BY <1>1, <2>2
    <3> QED
      BY <3>1, <3>2 DEF AlgoRemovedLast
  <2> QED
    BY <2>3, <2>4
<1>5. (\A i \in DOMAIN algoStream : ~AlgoRemoves(algoStream[i], id)) =>
        /\ ~AlgoRemoves(Head(algoStream), id)
        /\ \A i \in DOMAIN algoStream' : ~AlgoRemoves(algoStream'[i], id)
  BY <1>1
<1> QED
  BY <1>2, <1>3, <1>4, <1>5

LEMMA NewsRead ==
  ASSUME NewsInv, Unread,
         \A i \in DOMAIN stream' : \E j \in DOMAIN stream : stream'[i] = stream[j],
         \A i \in DOMAIN algoStream' : \E j \in DOMAIN algoStream : algoStream'[i] = algoStream[j]
  PROVE  NewsInv'
<1>1. \A i \in DOMAIN stream' :
        stream'[i].type = "order" => stream'[i].kind = orders[stream'[i].order].kind
  BY DEF NewsInv
<1>2. \A i \in DOMAIN algoStream' : \E k \in DOMAIN orders :
        orders[k].id = algoStream'[i].id /\ orders[k].kind = "stop"
  BY DEF NewsInv
<1> QED
  BY <1>1, <1>2 DEF NewsInv, Unread

(* The local book follows an order message, and an algo message. *)
LEMMA SyncedBook ==
  ASSUME NEW m, SyncOpenOrder(m), NEW id
  PROVE  /\ Listed(id) /\ ~Removes(m, id) /\ m.type = "order" => Listed(id)'
         /\ Adds(m, id) => Listed(id)'
         /\ ~Listed(id) /\ ~Adds(m, id) /\ m.type = "order" => ~Listed(id)'
         /\ Removes(m, id) => ~Listed(id)'
         /\ \A o \in book' : o \in book \/ (o = <<m.id, m.kind>> /\ m.kind = "limit")
<1>1. CASE m.state = Ack /\ m.kind = "limit" /\ ~Listed(m.id)
  <2>1. book' = book \cup {<<m.id, m.kind>>} /\ m.state \notin Terminal
    BY <1>1 DEF SyncOpenOrder, Terminal, Ack
  <2>2. Listed(id)' <=> Listed(id) \/ id = m.id
    <3>1. PICK o : o = <<m.id, m.kind>>
      OBVIOUS
    <3>2. book' = book \cup {o} /\ o[1] = m.id
      BY <2>1, <3>1
    <3> QED
      BY <3>2 DEF Listed
  <2> QED
    BY <1>1, <2>1, <2>2 DEF Adds, Removes
<1>2. CASE m.state \in Terminal
  <2>1. book' = Unlisted(m.id) /\ m.state # Ack
    BY <1>2 DEF SyncOpenOrder, Terminal, Ack
  <2>2. Listed(id)' <=> Listed(id) /\ id # m.id
    BY <2>1 DEF Listed, Unlisted
  <2> QED
    BY <1>2, <2>1, <2>2 DEF Adds, Removes, Unlisted
<1>3. CASE m.state \notin Terminal /\ ~(m.state = Ack /\ m.kind = "limit" /\ ~Listed(m.id))
  <2>1. book' = book
    BY <1>3 DEF SyncOpenOrder
  <2> QED
    BY <1>3, <2>1 DEF Adds, Removes, Listed
<1> QED
  BY <1>1, <1>2, <1>3

LEMMA AlgoSyncedBook ==
  ASSUME NEW m, ProcessAlgoUpdate(m), NEW id
  PROVE  /\ Listed(id) /\ ~AlgoRemoves(m, id) => Listed(id)'
         /\ AlgoAdds(m, id) => Listed(id)'
         /\ ~Listed(id) /\ ~AlgoAdds(m, id) => ~Listed(id)'
         /\ AlgoRemoves(m, id) => ~Listed(id)'
         /\ \A o \in book' : o \in book \/ o = <<m.id, "stop">>
<1>1. CASE m.state = Ack /\ ~Listed(m.id)
  <2>1. book' = book \cup {<<m.id, "stop">>} /\ m.state \notin Gone
    BY <1>1 DEF ProcessAlgoUpdate, Gone, Ack
  <2>2. Listed(id)' <=> Listed(id) \/ id = m.id
    <3>1. PICK o : o = <<m.id, "stop">>
      OBVIOUS
    <3>2. book' = book \cup {o} /\ o[1] = m.id
      BY <2>1, <3>1
    <3> QED
      BY <3>2 DEF Listed
  <2> QED
    BY <1>1, <2>1, <2>2 DEF AlgoAdds, AlgoRemoves
<1>2. CASE m.state \in Gone
  <2>1. book' = Unlisted(m.id) /\ m.state # Ack
    BY <1>2 DEF ProcessAlgoUpdate, Gone, Ack
  <2>2. Listed(id)' <=> Listed(id) /\ id # m.id
    BY <2>1 DEF Listed, Unlisted
  <2> QED
    BY <1>2, <2>1, <2>2 DEF AlgoAdds, AlgoRemoves, Unlisted
<1>3. CASE m.state \notin Gone /\ ~(m.state = Ack /\ ~Listed(m.id))
  <2>1. book' = book
    BY <1>3 DEF ProcessAlgoUpdate
  <2> QED
    BY <1>3, <2>1 DEF AlgoAdds, AlgoRemoves, Listed
<1> QED
  BY <1>1, <1>2, <1>3

LEMMA BookRead ==
  ASSUME BookInv, Unread, \A o \in book' : o \in book \/ IsOf(o[1], o[2])
  PROVE  BookInv'
BY DEF BookInv, Unread, IsOf, Rests

LEMMA AccountReadKeepsMirror ==
  ASSUME MessagesInv, MirrorInv, Unread, Received, algoStream' = algoStream,
         ProcessAccountUpdate(Head(stream))
  PROVE  MirrorInv'
<1>1. Head(stream).type = "account" /\ position' = Head(stream).position /\ book' = book
  BY DEF ProcessAccountUpdate
<1>2. /\ 1 \in DOMAIN stream /\ Head(stream) = stream[1]
      /\ \A i \in DOMAIN stream' :
           i \in Nat /\ i + 1 \in DOMAIN stream /\ i + 1 > 1 /\ stream'[i] = stream[i + 1]
      /\ \A j \in DOMAIN stream :
           j \in Nat /\ (j # 1 => j - 1 \in DOMAIN stream' /\ stream'[j - 1] = stream[j])
  BY ReceivedStream
<1>3. ASSUME ~missed PROVE PositionInv'
  <2>1. ASSUME \A i \in DOMAIN stream' : stream'[i].type # "account"
        PROVE  position' = xposition
    <3>1. \A j \in DOMAIN stream : 1 < j => stream[j].type # "account"
      BY <1>2, <2>1
    <3> QED
      BY <1>1, <1>2, <1>3, <3>1 DEF MirrorInv, PositionInv
  <2>2. ASSUME NEW i \in DOMAIN stream', stream'[i].type = "account",
               \A j \in DOMAIN stream' : i < j => stream'[j].type # "account"
        PROVE  stream'[i].position = xposition
    <3>1. \A j \in DOMAIN stream : i + 1 < j => stream[j].type # "account"
      BY <1>2, <2>2
    <3> QED
      BY <1>2, <1>3, <2>2, <3>1 DEF MirrorInv, PositionInv
  <2> QED
    BY <2>1, <2>2 DEF PositionInv, Unread
<1>4. PositionInv'
  BY <1>3 DEF PositionInv, Unread
<1>5. NewsInv' /\ BookInv'
  BY <1>1, <1>2, NewsRead, BookRead DEF MirrorInv
<1>6. ASSUME NEW id \in Ids
      PROVE  (Shown(id) => Shown(id)') /\ (Hidden(id) => Hidden(id)')
  <2>1. ~Adds(Head(stream), id) /\ ~Removes(Head(stream), id)
    BY <1>1 DEF Adds, Removes
  <2>2. /\ (Listed(id)' <=> Listed(id)) /\ (NotAlgoAdded(id)' <=> NotAlgoAdded(id))
        /\ (AlgoRemovedLast(id)' <=> AlgoRemovedLast(id))
    BY <1>1 DEF Listed, NotAlgoAdded, AlgoRemovedLast
  <2>3. Shown(id) => Shown(id)'
    BY <2>1, <2>2, ReadOfStream, CancelToldStays DEF Shown
  <2>4. Hidden(id) => Hidden(id)'
    BY <2>1, <2>2, ReadOfStream DEF Hidden
  <2> QED
    BY <2>3, <2>4
<1>7. ListingInv' /\ HintsInv'
  BY <1>6, UnreadListing
<1> QED
  BY <1>4, <1>5, <1>7 DEF MirrorInv

LEMMA OrderReadKeepsMirror ==
  ASSUME OrdersInv, IdsInv, MessagesInv, MirrorInv, Unread, Received,
         algoStream' = algoStream, ProcessOrderTradeUpdate(Head(stream))
  PROVE  MirrorInv'
<1>1. Head(stream).type = "order" /\ position' = position /\ SyncOpenOrder(Head(stream))
  BY DEF ProcessOrderTradeUpdate
<1>2. /\ 1 \in DOMAIN stream /\ Head(stream) = stream[1]
      /\ \A i \in DOMAIN stream' :
           i \in Nat /\ i + 1 \in DOMAIN stream /\ i + 1 > 1 /\ stream'[i] = stream[i + 1]
      /\ \A j \in DOMAIN stream :
           j \in Nat /\ (j # 1 => j - 1 \in DOMAIN stream' /\ stream'[j - 1] = stream[j])
  BY ReceivedStream
<1>3. ASSUME ~missed PROVE PositionInv'
  <2>1. ASSUME \A i \in DOMAIN stream' : stream'[i].type # "account"
        PROVE  position' = xposition
    <3>1. \A j \in DOMAIN stream : stream[j].type # "account"
      BY <1>1, <1>2, <2>1
    <3> QED
      BY <1>1, <1>3, <3>1 DEF MirrorInv, PositionInv
  <2>2. ASSUME NEW i \in DOMAIN stream', stream'[i].type = "account",
               \A j \in DOMAIN stream' : i < j => stream'[j].type # "account"
        PROVE  stream'[i].position = xposition
    <3>1. \A j \in DOMAIN stream : i + 1 < j => stream[j].type # "account"
      BY <1>2, <2>2
    <3> QED
      BY <1>2, <1>3, <2>2, <3>1 DEF MirrorInv, PositionInv
  <2> QED
    BY <2>1, <2>2 DEF PositionInv, Unread
<1>4. PositionInv'
  BY <1>3 DEF PositionInv, Unread
<1>5. NewsInv'
  BY <1>2, NewsRead DEF MirrorInv
<1>6. PICK m : m = Head(stream)
  OBVIOUS
<1>7. BookInv'
  <2>1. \A o \in book' : o \in book \/ (o = <<m.id, m.kind>> /\ m.kind = "limit")
    BY <1>1, <1>6, SyncedBook
  <2>2. ASSUME m.kind = "limit" PROVE IsOf(m.id, m.kind)
    <3>1. PICK k : k = m.order
      OBVIOUS
    <3>2. k \in DOMAIN orders /\ orders[k].id = m.id /\ orders[k].kind = m.kind
      BY <1>1, <1>2, <1>6, <3>1 DEF MessagesInv, IsMessage, MirrorInv, NewsInv
    <3> QED
      BY <2>2, <3>2, OrderBelongs, NotMarketRests
  <2>3. \A o \in book' : o \in book \/ IsOf(o[1], o[2])
    BY <2>1, <2>2
  <2> QED
    BY <2>3, BookRead DEF MirrorInv
<1>8. ASSUME NEW id \in Ids
      PROVE  (Shown(id) => Shown(id)') /\ (Hidden(id) => Hidden(id)')
  <2>1. /\ Listed(id) /\ ~Removes(m, id) => Listed(id)'
        /\ Adds(m, id) => Listed(id)'
        /\ ~Listed(id) /\ ~Adds(m, id) => ~Listed(id)'
        /\ Removes(m, id) => ~Listed(id)'
    BY <1>1, <1>6, SyncedBook
  <2>2. /\ (NotAlgoAdded(id)' <=> NotAlgoAdded(id))
        /\ (AlgoRemovedLast(id)' <=> AlgoRemovedLast(id))
    BY DEF NotAlgoAdded, AlgoRemovedLast
  <2>3. Shown(id) => Shown(id)'
    BY <1>6, <2>1, <2>2, ReadOfStream, CancelToldStays DEF Shown
  <2>4. Hidden(id) => Hidden(id)'
    BY <1>6, <2>1, <2>2, ReadOfStream DEF Hidden
  <2> QED
    BY <2>3, <2>4
<1>9. ListingInv' /\ HintsInv'
  BY <1>8, UnreadListing
<1> QED
  BY <1>4, <1>5, <1>7, <1>9 DEF MirrorInv

LEMMA AlgoReadKeepsMirror ==
  ASSUME OrdersInv, IdsInv, AlgoInv, MirrorInv, Unread, AlgoReceived,
         stream' = stream, ProcessAlgoUpdate(Head(algoStream))
  PROVE  MirrorInv'
<1>1. Sequence(algoStream) /\ position' = position
  BY DEF AlgoInv, ProcessAlgoUpdate
<1>2. /\ 1 \in DOMAIN algoStream /\ Head(algoStream) = algoStream[1]
      /\ \A i \in DOMAIN algoStream' :
           i + 1 \in DOMAIN algoStream /\ algoStream'[i] = algoStream[i + 1]
  BY <1>1, AlgoReceivedStream
<1>3. PositionInv'
  BY <1>1 DEF MirrorInv, PositionInv, Unread
<1>4. NewsInv'
  BY <1>2, NewsRead DEF MirrorInv
<1>5. PICK m : m = Head(algoStream)
  OBVIOUS
<1>6. BookInv'
  <2>1. \A o \in book' : o \in book \/ o = <<m.id, "stop">>
    BY <1>5, AlgoSyncedBook
  <2>2. IsOf(m.id, "stop")
    <3>1. PICK k \in DOMAIN orders : orders[k].id = m.id /\ orders[k].kind = "stop"
      BY <1>2, <1>5 DEF MirrorInv, NewsInv
    <3> QED
      BY <3>1, OrderBelongs, NotMarketRests
  <2>3. \A o \in book' : o \in book \/ IsOf(o[1], o[2])
    BY <2>1, <2>2
  <2> QED
    BY <2>3, BookRead DEF MirrorInv
<1>7. ASSUME NEW id \in Ids
      PROVE  (Shown(id) => Shown(id)') /\ (Hidden(id) => Hidden(id)')
  <2>1. /\ Listed(id) /\ ~AlgoRemoves(m, id) => Listed(id)'
        /\ AlgoAdds(m, id) => Listed(id)'
        /\ ~Listed(id) /\ ~AlgoAdds(m, id) => ~Listed(id)'
        /\ AlgoRemoves(m, id) => ~Listed(id)'
    BY <1>5, AlgoSyncedBook
  <2>2. (NotAdded(id)' <=> NotAdded(id)) /\ (RemovedLast(id)' <=> RemovedLast(id))
    BY DEF NotAdded, RemovedLast
  <2>3. Shown(id) => Shown(id)'
    BY <1>1, <1>5, <2>1, <2>2, ReadOfAlgoStream, CancelToldStays DEF Shown
  <2>4. Hidden(id) => Hidden(id)'
    BY <1>1, <1>5, <2>1, <2>2, ReadOfAlgoStream DEF Hidden
  <2> QED
    BY <2>3, <2>4
<1>8. ListingInv' /\ HintsInv'
  BY <1>7, UnreadListing
<1> QED
  BY <1>3, <1>4, <1>6, <1>8 DEF MirrorInv

LEMMA UserDataKeepsMirror ==
  ASSUME ExecutorInv, RecordInv, PairingInv, MirrorInv, OnUserData
  PROVE  MirrorInv'
<1>1. /\ OrdersInv /\ IdsInv /\ MessagesInv /\ AlgoInv /\ Unread
  BY DEF OnUserData, history, Unread, ExecutorInv, RecordInv, PairingInv
<1>2. CASE /\ stream # <<>> /\ ProcessAccountUpdate(Head(stream))
           /\ stream' = Tail(stream) /\ UNCHANGED algoStream
  BY <1>1, <1>2, AccountReadKeepsMirror DEF Received, Unread
<1>3. CASE /\ stream # <<>> /\ ProcessOrderTradeUpdate(Head(stream))
           /\ stream' = Tail(stream) /\ UNCHANGED algoStream
  BY <1>1, <1>3, OrderReadKeepsMirror DEF Received, Unread
<1>4. CASE /\ algoStream # <<>> /\ ProcessAlgoUpdate(Head(algoStream))
           /\ algoStream' = Tail(algoStream) /\ UNCHANGED stream
  BY <1>1, <1>4, AlgoReadKeepsMirror DEF AlgoReceived
<1> QED
  BY <1>2, <1>3, <1>4 DEF OnUserData

-----------------------------------------------------------------------------
LEMMA MarketKeepsMirror ==
  ASSUME ExecutorInv, ExecutorInv', RecordInv, PairingInv, MirrorInv,
         Market, UNCHANGED Executor
  PROVE  MirrorInv'
<1>1. OrdersInv /\ DecisionsInv /\ FillsInv /\ AcceptedInv /\ Sequence(algoStream)
  BY DEF ExecutorInv, RecordInv, PairingInv, AlgoInv
<1>2. UNCHANGED <<book, position, requests, reported, decisions>>
  BY DEF Executor, account, history
<1>3. OrdersGrow
  BY <1>1, MarketSays
<1>4. PlacedGrow
  BY <1>1, <1>2, PlacedSame
<1>5. NewOrders
  BY <1>1, <1>2, ExecutePairs, ExpirePairs, TriggerPairs DEF Market
<1>6. \E extra, algo : Speaks(extra, algo) /\ Send(extra, algo)
  BY <1>1, MarketSpeaks
<1>7. CancelsStay
  BY <1>2 DEF CancelsStay, CancelTold, Cancels, Asked
<1>8. PositionInv' /\ NewsInv' /\ ListingInv'
  BY <1>2, <1>3, <1>4, <1>5, <1>6, <1>7, ExchangeKeepsMirror
<1>9. DecisionsGrow /\ ActionsStay /\ book' \subseteq book
  BY <1>2 DEF DecisionsGrow, ActionsStay
<1> QED
  BY <1>8, <1>9, HintsStay, BookStays DEF MirrorInv

LEMMA InitMirror == Init => MirrorInv
<1> SUFFICES ASSUME Init PROVE MirrorInv
  OBVIOUS
<1>1. /\ position = xposition /\ book = {} /\ orders = <<>> /\ requests = <<>>
      /\ stream = <<>> /\ algoStream = <<>>
  BY DEF Init, ExchangeInit
<1>2. PositionInv /\ NewsInv /\ BookInv /\ HintsInv
  BY <1>1, EmptySequence DEF PositionInv, NewsInv, BookInv, HintsInv
<1>3. \A id : ~OnExchange(id) /\ Hidden(id)
  BY <1>1, EmptySequence DEF OnExchange, Hidden, Listed, NotAdded, NotAlgoAdded
<1> QED
  BY <1>2, <1>3 DEF MirrorInv, ListingInv, Mirrored

LEMMA NextMirror ==
  ASSUME ExecutorInv, ExecutorInv', RecordInv, PairingInv, MirrorInv, [Next]_vars
  PROVE  MirrorInv'
<1>1. DecisionsInv
  BY DEF ExecutorInv
<1>2. CASE BeginEvent
  BY <1>1, <1>2, SameKeepsMirror DEF BeginEvent, exchange, history
<1>3. CASE Submit
  BY <1>3, SubmitKeepsMirror
<1>4. CASE Work
  BY <1>4, WorkKeepsMirror
<1>5. CASE \E i \in DOMAIN requests : TimeOut(i)
  BY <1>5, TimeOutKeepsMirror
<1>6. CASE OnUserData
  BY <1>6, UserDataKeepsMirror
<1>7. CASE Restart
  BY <1>7, RestartKeepsMirror
<1>8. CASE Market /\ UNCHANGED Executor
  BY <1>8, MarketKeepsMirror
<1>9. CASE Connect /\ UNCHANGED Executor
  BY <1>1, <1>9, SameKeepsMirror DEF Connect, Executor, history
<1>10. CASE /\ MayFail /\ Drop
            /\ life' = [life EXCEPT !.drops = @ + 1]
            /\ UNCHANGED <<account, pairing, seq, requests, reported, decisions, obeyed>>
  BY <1>10, DropKeepsMirror
<1>11. CASE UNCHANGED vars
  BY <1>1, <1>11, SameKeepsMirror DEF vars, exchange, account, history
<1> QED
  BY <1>2, <1>3, <1>4, <1>5, <1>6, <1>7, <1>8, <1>9, <1>10, <1>11 DEF Next

(* With no request and no message under way and none lost, the strategy    *)
(* sees the account as it is: the position, and every open order that was  *)
(* not sent twice and whose cancel is not known to have failed, however    *)
(* the two streams, the pool and the market were ordered before (submit,   *)
(* _process_account_update, _sync_open_order, _process_algo_update,        *)
(* create).                                                                *)
THEOREM MirrorIsTrueAtRest == Spec => []MirrorAtRest
<1>1. Init => RecordInv /\ PairingInv /\ MirrorInv
  BY InitRecords, InitPairing, InitMirror
<1>2. ExecutorInv /\ ExecutorInv' /\ RecordInv /\ PairingInv /\ MirrorInv /\ [Next]_vars =>
        RecordInv' /\ PairingInv' /\ MirrorInv'
  BY NextRecords, NextPairing, NextMirror
<1>3. MirrorInv => MirrorAtRest
  <2> SUFFICES ASSUME MirrorInv, AtRest, ~missed
               PROVE  /\ position = xposition
                      /\ \A id \in Ids : CancelFailed(id) \/ ~AcceptedOnce(id)
                                         \/ (Listed(id) <=> OnExchange(id))
    BY DEF MirrorAtRest
  <2>1. DOMAIN stream = {} /\ DOMAIN algoStream = {} /\ DOMAIN requests = {}
    BY EmptySequence DEF AtRest
  <2>2. position = xposition
    BY <2>1 DEF MirrorInv, PositionInv
  <2>3. ASSUME NEW id \in Ids, AcceptedOnce(id), ~CancelFailed(id)
        PROVE  Listed(id) <=> OnExchange(id)
    <3>1. ~CancelTold(id)
      BY <2>1, <2>3 DEF CancelTold, Cancels, Asked, CancelFailed
    <3>2. Mirrored(id)
      BY <2>3 DEF MirrorInv, ListingInv
    <3>3. Shown(id) => Listed(id)
      BY <2>1, <3>1 DEF Shown, NotAdded, NotAlgoAdded
    <3>4. Hidden(id) => ~Listed(id)
      BY <2>1 DEF Hidden, RemovedLast, AlgoRemovedLast
    <3> QED
      BY <3>2, <3>3, <3>4 DEF Mirrored
  <2> QED
    BY <2>2, <2>3
<1> QED
  BY <1>1, <1>2, <1>3, ExecutorInvariant, PTL DEF Spec

=============================================================================

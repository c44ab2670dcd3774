------------------------------ MODULE Exchange ------------------------------
(***************************************************************************)
(* The futures exchange as executor/live.py and binance_order_client.py    *)
(* rely on it: one symbol, a regular book of MARKET and LIMIT orders, a    *)
(* separate book of conditional (algo) orders, and the user data stream.   *)
(* It is not code of the repository.  It refuses an id that is already     *)
(* open in the same book and a reduce-only order that has nothing to       *)
(* reduce, fills an order in one or several trades, and turns a triggered  *)
(* conditional order into a market order with the same id.  Account and    *)
(* order messages come in order; algo messages come in order among         *)
(* themselves, since the code assumes nothing of the order between the two *)
(* (executor/live.py, _process_algo_update).                               *)
(***************************************************************************)
EXTENDS Integers, Sequences, FiniteSets, Functions

CONSTANT
  MaxOrders       \* bound: orders the exchange accepts

VARIABLES
  xposition,      \* the position the account really has
  orders,         \* every order accepted; its index is its order number
  stream,         \* account and order messages under way
  algoStream,     \* algo messages under way
  link,           \* the user stream: "starting", "open" or "dropped"
  missed          \* a message of this process's life was not delivered

exchange == <<xposition, orders, stream, algoStream, link, missed>>

Magnitude(n) == IF n < 0 THEN -n ELSE n
Sign(n) == IF n < 0 THEN -1 ELSE 1
Reduces(quantity) == xposition * quantity < 0

IsOpen(k) == orders[k].state = "open"
Conditional(kind) == kind = "stop"

ExchangeInit(held) ==
  /\ xposition = held /\ orders = <<>>
  /\ stream = <<>> /\ algoStream = <<>>
  /\ link = "open" /\ missed = FALSE

(* Messages, which nobody receives while the stream is not open. *)
Send(messages, algoMessages) ==
  IF link = "open"
  THEN /\ stream' = stream \o messages
       /\ algoStream' = algoStream \o algoMessages
       /\ UNCHANGED missed
  ELSE missed' = TRUE /\ UNCHANGED <<stream, algoStream>>

AccountUpdate == [type |-> "account", position |-> xposition']
OrderUpdate(k, state, traded) ==
  [type |-> "order", order |-> k, id |-> orders'[k].id,
   kind |-> orders'[k].kind, state |-> state, traded |-> traded,
   executed |-> orders'[k].executed,
   fills |-> orders'[k].fills]      \* history: the trades of the order so far
(* The NEW of a market order tells the code nothing: it is left out. *)
NewMessage(k) ==
  IF orders'[k].kind = "market" THEN <<>> ELSE <<OrderUpdate(k, "NEW", FALSE)>>
AlgoUpdate(id, state) == [id |-> id, state |-> state]

---------------------------------------------------------------------------
(* What a request does. *)

Accepts(o) ==
  /\ Len(orders) < MaxOrders
  /\ \A k \in DOMAIN orders :
       IsOpen(k) /\ orders[k].id = o.id =>
         Conditional(orders[k].kind) # Conditional(o.kind)
  /\ o.reduce /\ ~Conditional(o.kind) => Reduces(o.quantity)

Enters(o, decision) ==
  orders' = Append(orders, [id |-> o.id, kind |-> o.kind, reduce |-> o.reduce,
                            quantity |-> o.quantity, executed |-> 0, fills |-> 0,
                            state |-> "open", decision |-> decision])

Place(o, decision) ==
  /\ Accepts(o)
  /\ Enters(o, decision)
  /\ IF Conditional(o.kind)
     THEN Send(<<>>, <<AlgoUpdate(o.id, "NEW")>>)
     ELSE Send(NewMessage(Len(orders')), <<>>)
  /\ UNCHANGED <<xposition, link>>

Withdrawn(numbers) ==
  orders' = [k \in DOMAIN orders |->
               IF k \in numbers THEN [orders[k] EXCEPT !.state = "done"]
                                ELSE orders[k]]

(* The open orders a cancel request finds, in any order. *)
Withdraw(numbers) ==
  LET Of(book) == {k \in numbers : Conditional(orders[k].kind) = book}
      Listings(S) == Bijection(1..Cardinality(S), S)
  IN /\ Withdrawn(numbers)
     /\ \E regular \in Listings(Of(FALSE)), algo \in Listings(Of(TRUE)) :
          Send([i \in DOMAIN regular |-> OrderUpdate(regular[i], "CANCELED", FALSE)],
               [i \in DOMAIN algo |-> AlgoUpdate(orders[algo[i]].id, "CANCELED")])
     /\ UNCHANGED <<xposition, link>>

---------------------------------------------------------------------------
(* What the market does. *)

Execute(k) ==
  LET o == orders[k]
      left == Magnitude(o.quantity - o.executed)
      limit == IF o.reduce /\ Magnitude(xposition) < left
               THEN Magnitude(xposition) ELSE left
  IN /\ IsOpen(k) /\ ~Conditional(o.kind)
     /\ o.reduce => Reduces(o.quantity)
     /\ \E n \in 1..limit :
          /\ xposition' = xposition + Sign(o.quantity) * n
          /\ orders' = [orders EXCEPT
               ![k].executed = @ + Sign(o.quantity) * n,
               ![k].fills = @ + 1,
               ![k].state = IF n = left THEN "done" ELSE "open"]
          /\ Send(<<AccountUpdate,
                    OrderUpdate(k, IF n = left THEN "FILLED" ELSE "PARTIALLY_FILLED",
                                TRUE)>>, <<>>)
     /\ UNCHANGED link

(* A reduce-only order with nothing left to reduce, a market order that    *)
(* nobody takes.                                                           *)
Expire(k) ==
  /\ IsOpen(k) /\ ~Conditional(orders[k].kind)
  /\ orders[k].kind = "market" \/ (orders[k].reduce /\ ~Reduces(orders[k].quantity))
  /\ Withdrawn({k})
  /\ Send(<<OrderUpdate(k, "EXPIRED", FALSE)>>, <<>>)
  /\ UNCHANGED <<xposition, link>>

Trigger(k) ==
  LET o == orders[k]
      issued == [id |-> o.id, kind |-> "market", reduce |-> o.reduce,
                 quantity |-> o.quantity, executed |-> 0, fills |-> 0,
                 state |-> "open", decision |-> o.decision]
  IN /\ IsOpen(k) /\ Conditional(o.kind) /\ Len(orders) < MaxOrders
     /\ orders' = Append([orders EXCEPT ![k].state = "done"], issued)
     /\ Send(<<>>, <<AlgoUpdate(o.id, "TRIGGERED")>>)
     /\ UNCHANGED <<xposition, link>>

Market == \E k \in DOMAIN orders : Execute(k) \/ Expire(k) \/ Trigger(k)

(* The user socket is lost and what was under way with it; it comes back.  *)
Drop ==
  /\ link = "open"
  /\ link' = "dropped"
  /\ stream' = <<>> /\ algoStream' = <<>>
  /\ missed' = (missed \/ stream # <<>> \/ algoStream # <<>>)
  /\ UNCHANGED <<xposition, orders>>

Connect ==
  /\ link # "open"
  /\ link' = "open"
  /\ UNCHANGED <<xposition, orders, stream, algoStream, missed>>

=============================================================================

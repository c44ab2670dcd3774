---------------------------- MODULE LiveExecutor ----------------------------
(***************************************************************************)
(* Orders on the real exchange: core/executor/live.py, LiveExecutor, and   *)
(* core/executor/binance_order_client.py.                                  *)
(*                                                                         *)
(* submit() reads the account, remembers the decision under the client id  *)
(* of its order and hands the request to a pool of two threads, which try  *)
(* an order up to MaxTries times and a cancel once; a detached task waits  *)
(* for the result, at most ten seconds, and reports a failure to on_error. *)
(* What happened to an order arrives on the user data stream, whose        *)
(* messages set the position, maintain the local copy of the open orders,  *)
(* and end in one Trade per order, paired with its decision.  A restarted  *)
(* process reads the account from the exchange, warms up, and only then    *)
(* opens the stream (trader/trader.py, start).                             *)
(*                                                                         *)
(* One symbol.  A quantity is an integer; prices, margins and the symbol   *)
(* rules are left out (an action that breaks them is dropped, which        *)
(* changes nothing), and a fee is the number of trades it was paid for.    *)
(* A strategy never uses the id of a resting order twice: the code asks    *)
(* live strategies for that (streamer/strategies/keltner_stop_streamer.py).*)
(***************************************************************************)
EXTENDS Exchange, SequencesExt

CONSTANTS
  Quantities,     \* of market actions
  Resting,        \* the limit and conditional actions of the strategy
  MarketIds,      \* the ids st-1, st-2, ... in order
  All,            \* a cancel of every order
  MaxTries,       \* max_retries + 1
  Workers,        \* max_workers
  MaxDecisions,   \* bound: actions submitted
  MaxFailures,    \* bound: restarts, losses of the user socket and timeouts
  StartPosition   \* the position the account holds at the beginning

ASSUME ActionAssumption ==
  /\ Quantities \subseteq Int /\ StartPosition \in Int
  /\ \A a \in Resting : a.quantity \in Int /\ a.kind \in {"limit", "stop"}
  /\ MaxDecisions \in Nat /\ 1..MaxDecisions \subseteq DOMAIN MarketIds
  /\ IsInjective(MarketIds)
  /\ {a.id : a \in Resting} \cap (ToSet(MarketIds) \cup {All}) = {}

VARIABLES
  position,       \* status.positions: the position the strategy sees
  book,           \* status.open_orders: <<id, kind>> pairs
  pending,        \* _pending_decision: id -> decision
  partial,        \* _order_agg: order number -> trades it paid for
  seq,            \* _client_order_seq
  requests,       \* what the pool has not finished, oldest first
  reported,       \* the decisions whose failure reached on_error
  decisions,      \* every action submitted
  trades,         \* every Trade emitted
  obeyed,         \* history: the cancels the exchange carried out
  life            \* history: failures so far, and the orders and decisions
                  \* there were when this process started

vars == <<exchange, position, book, pending, partial, seq, requests, reported,
          decisions, trades, obeyed, life>>
account == <<position, book>>
pairing == <<pending, partial, trades>>
history == <<reported, decisions, obeyed, life>>

Ids == {a.id : a \in Resting}
Without(f, S) == [x \in DOMAIN f \ S |-> f[x]]
With(f, x, value) == [y \in DOMAIN f \cup {x} |-> IF y = x THEN value ELSE f[y]]
None == 0         \* no decision

Init ==
  /\ ExchangeInit(StartPosition)
  /\ position = StartPosition /\ book = {}
  /\ pending = <<>> /\ partial = <<>> /\ seq = 0
  /\ requests = <<>> /\ reported = {} /\ decisions = <<>> /\ trades = {}
  /\ obeyed = {}
  /\ life = [restarts |-> 0, drops |-> 0, timeouts |-> 0, orders |-> 0, decisions |-> 0]

MayFail == life.restarts + life.drops + life.timeouts < MaxFailures

---------------------------------------------------------------------------
(* The engine's side: begin_event and submit, while the stream is consumed *)
(* and not before the first connection.                                    *)

Running == link # "starting"

(* Market decisions whose fill did not arrive within their candle. *)
BeginEvent ==
  /\ Running
  /\ LET stale == {id \in DOMAIN pending : ~pending[id].resting}
     IN stale # {} /\ pending' = Without(pending, stale)
  /\ UNCHANGED <<exchange, account, partial, seq, requests, history, trades>>

(* A pure reduction goes out reduce-only. *)
PureReduction(quantity) ==
  position * quantity < 0 /\ Magnitude(quantity) <= Magnitude(position)
SentAsDecided(quantity) == FALSE   \* a faulty variant: it goes out as it is
SentReduceOnly(quantity) == PureReduction(quantity)

Decide(decision, action) ==
  /\ Len(decisions) < MaxDecisions
  /\ decisions' = Append(decisions, decision)
  /\ requests' = Append(requests, [action |-> action, tries |-> 0, waited |-> TRUE,
                                   decision |-> Len(decisions')])
  /\ UNCHANGED <<exchange, position, partial, trades, reported, obeyed, life>>

Remember(id, resting) ==
  pending' = With(pending, id, [decision |-> Len(decisions'), resting |-> resting])

StuckId == MarketIds[1]            \* a faulty variant: always the first id
NextId == MarketIds[seq + 1]

SubmitMarket(quantity) ==
  /\ Running
  /\ Decide([kind |-> "market", id |-> NextId, closing |-> PureReduction(quantity),
             placed |-> 0],
            [id |-> NextId, kind |-> "market", quantity |-> quantity,
             reduce |-> SentReduceOnly(quantity)])
  /\ seq' = seq + 1
  /\ Remember(NextId, FALSE)
  /\ UNCHANGED book

SubmitResting(a) ==
  /\ Running
  /\ \A n \in DOMAIN decisions : decisions[n].id # a.id \/ decisions[n].kind = "cancel"
  /\ Decide([kind |-> a.kind, id |-> a.id, closing |-> FALSE, placed |-> 0], a)
  /\ Remember(a.id, TRUE)
  /\ UNCHANGED <<book, seq>>

(* The local book is emptied at once; what was in it tells the client which*)
(* book of the exchange to ask ("both" when nothing was found).            *)
SubmitCancel(id) ==
  LET removed == {o \in book : id = All \/ o[1] = id}
      hint == CASE removed = {} -> "unknown"
                [] \E o \in removed : Conditional(o[2]) -> "algo"
                [] OTHER -> "regular"
  IN /\ Running
     /\ \E n \in DOMAIN decisions :
          decisions[n].kind \notin {"market", "cancel"} /\ id \in {All, decisions[n].id}
     /\ Decide([kind |-> "cancel", id |-> id, closing |-> FALSE, placed |-> 0],
               [id |-> id, kind |-> "cancel", hint |-> hint])
     /\ book' = book \ removed
     /\ UNCHANGED <<pending, seq>>

Submit ==
  \/ \E quantity \in Quantities : SubmitMarket(quantity)
  \/ \E a \in Resting : SubmitResting(a)
  \/ \E id \in Ids \cup {All} : SubmitCancel(id)

---------------------------------------------------------------------------
(* The thread pool, and the task that waits for a result.                  *)

Report(r) == reported' = IF r.waited THEN reported \cup {r.decision} ELSE reported

Finish(i) == requests' = RemoveAt(requests, i)

QuietFailure(i) ==                 \* a faulty variant: a cancel's result is not looked at
  Finish(i) /\ IF requests[i].action.kind = "cancel"
               THEN UNCHANGED reported
               ELSE Report(requests[i])
Fail(i) ==
  Finish(i) /\ Report(requests[i])

FailedTry(i) ==
  IF requests[i].tries + 1 = MaxTries
  THEN Fail(i)
  ELSE /\ requests' = [requests EXCEPT ![i].tries = @ + 1]
       /\ UNCHANGED reported

CountPlaced(d) == decisions' = [decisions EXCEPT ![d].placed = @ + 1]

(* _execute_order_with_retry: the exchange may accept the order and the    *)
(* reply be lost; refuse it; or never hear of it.                          *)
TryOrder(i) ==
  LET r == requests[i]
  IN /\ r.action.kind # "cancel"
     /\ \/ /\ Place(r.action, r.decision) /\ CountPlaced(r.decision)
           /\ \/ Finish(i) /\ UNCHANGED reported
              \/ FailedTry(i)
        \/ FailedTry(i) /\ UNCHANGED <<exchange, decisions>>
     /\ UNCHANGED obeyed

(* _cancel_single_order: one id in one book, or in the other when the      *)
(* first does not know it; or every order of both books, each of which may *)
(* fail by itself.                                                         *)
Found(action) ==
  LET openIn(conditional) == {k \in DOMAIN orders :
        /\ IsOpen(k) /\ orders[k].id = action.id
        /\ Conditional(orders[k].kind) = conditional}
  IN CASE action.hint = "regular" -> openIn(FALSE)
       [] action.hint = "algo" -> openIn(TRUE)
       [] OTHER -> IF openIn(FALSE) # {} THEN openIn(FALSE) ELSE openIn(TRUE)

CarriedOut(i) == obeyed' = obeyed \cup {requests[i].decision}

CancelOne(i) ==
  LET found == Found(requests[i].action)
  IN /\ requests[i].action.id # All
     /\ \/ /\ found # {} /\ Withdraw(found) /\ CarriedOut(i)
           /\ \/ Finish(i) /\ UNCHANGED reported
              \/ Fail(i)
        \/ Fail(i) /\ UNCHANGED <<exchange, obeyed>>

CancelAll(i) ==
  LET openIn(conditional) ==
        {k \in DOMAIN orders : IsOpen(k) /\ Conditional(orders[k].kind) = conditional}
  IN /\ requests[i].action.id = All
     /\ \E asked \in SUBSET BOOLEAN :
          /\ Withdraw(UNION {openIn(conditional) : conditional \in asked})
          /\ IF asked = BOOLEAN THEN CarriedOut(i) ELSE UNCHANGED obeyed
          /\ \/ asked = BOOLEAN /\ Finish(i) /\ UNCHANGED reported
             \/ Fail(i)

TryCancel(i) ==
  /\ requests[i].action.kind = "cancel"
  /\ CancelOne(i) \/ CancelAll(i)
  /\ UNCHANGED decisions

Work ==
  /\ \E i \in DOMAIN requests : i <= Workers /\ (TryOrder(i) \/ TryCancel(i))
  /\ UNCHANGED <<account, pairing, seq, life>>

(* ORDER_RESULT_TIMEOUT: a request that no thread has taken yet is         *)
(* cancelled with the wait, one that runs goes on unobserved.              *)
TimeOut(i) ==
  /\ requests[i].waited /\ MayFail
  /\ life' = [life EXCEPT !.timeouts = @ + 1]
  /\ Report(requests[i])
  /\ IF i > Workers THEN Finish(i)
                    ELSE requests' = [requests EXCEPT ![i].waited = FALSE]
  /\ UNCHANGED <<exchange, account, pairing, seq, decisions, obeyed>>

---------------------------------------------------------------------------
(* The user data stream.                                                   *)

TerminalMissingExpiry == {"FILLED", "CANCELED", "REJECTED"}  \* a faulty variant
Terminal == {"FILLED", "CANCELED", "EXPIRED", "REJECTED"}
Ack == "NEW"
Gone == {"TRIGGERED", "FINISHED", "CANCELED", "EXPIRED", "REJECTED"}
Unfilled == {"CANCELED", "EXPIRED", "REJECTED"}

Listed(id) == \E o \in book : o[1] = id
Unlisted(id) == {o \in book : o[1] # id}

ProcessAccountUpdate(m) ==
  /\ m.type = "account"
  /\ position' = m.position
  /\ UNCHANGED <<book, pairing>>

(* _sync_open_order; order_from_exchange knows no MARKET order.            *)
SyncOpenOrder(m) ==
  book' = CASE m.state = Ack /\ m.kind = "limit" /\ ~Listed(m.id) ->
                 book \cup {<<m.id, m.kind>>}
            [] m.state \in Terminal -> Unlisted(m.id)
            [] OTHER -> book

PaidSoFar(m) == (IF m.order \in DOMAIN partial THEN partial[m.order] ELSE 0)
                + (IF m.traded THEN 1 ELSE 0)
PaidSinceLast(m) == IF m.traded THEN 1 ELSE 0   \* a faulty variant: not accumulated
Paid(m) == PaidSoFar(m)

EmitFill(m) ==
  trades' = trades \cup
    {[order |-> m.order, quantity |-> m.executed, paid |-> Paid(m),
      own |-> orders[m.order].decision > life.decisions, whole |-> ~missed,
      decision |-> IF m.id \in DOMAIN pending THEN pending[m.id].decision ELSE None]}

ProcessOrderTradeUpdate(m) ==
  /\ m.type = "order"
  /\ SyncOpenOrder(m)
  /\ UNCHANGED position
  /\ CASE m.state = "PARTIALLY_FILLED" ->
            partial' = With(partial, m.order, Paid(m)) /\ UNCHANGED <<pending, trades>>
       [] m.state \in Terminal ->
            /\ partial' = Without(partial, {m.order})
            /\ pending' = Without(pending, {m.id})
            /\ IF m.executed # 0 THEN EmitFill(m) ELSE UNCHANGED trades
       [] OTHER -> UNCHANGED pairing

ProcessAlgoUpdate(m) ==
  /\ book' = CASE m.state = Ack /\ ~Listed(m.id) -> book \cup {<<m.id, "stop">>}
               [] m.state \in Gone -> Unlisted(m.id)
               [] OTHER -> book
  /\ pending' = IF m.state \in Unfilled THEN Without(pending, {m.id}) ELSE pending
  /\ UNCHANGED <<position, partial, trades>>

OnUserData ==
  /\ \/ /\ stream # <<>>
        /\ ProcessAccountUpdate(Head(stream)) \/ ProcessOrderTradeUpdate(Head(stream))
        /\ stream' = Tail(stream) /\ UNCHANGED algoStream
     \/ /\ algoStream # <<>>
        /\ ProcessAlgoUpdate(Head(algoStream))
        /\ algoStream' = Tail(algoStream) /\ UNCHANGED stream
  /\ UNCHANGED <<xposition, orders, link, missed, seq, requests, history>>

---------------------------------------------------------------------------
(* The process dies; a new one reads the account (create), where either    *)
(* query of open orders may fail without stopping the start, and opens the *)
(* stream after the warm-up.                                               *)
Restart ==
  /\ MayFail
  /\ position' = xposition
  /\ \E answered \in SUBSET BOOLEAN :
       /\ book' = {<<orders[k].id, orders[k].kind>> : k \in {j \in DOMAIN orders :
                     /\ IsOpen(j) /\ orders[j].kind # "market"
                     /\ Conditional(orders[j].kind) \in answered}}
       /\ missed' = (answered # BOOLEAN)
  /\ pending' = <<>> /\ partial' = <<>> /\ seq' = 0 /\ requests' = <<>>
  /\ reported' = {} /\ trades' = {}
  /\ link' = "starting" /\ stream' = <<>> /\ algoStream' = <<>>
  /\ life' = [life EXCEPT !.restarts = @ + 1, !.orders = Len(orders),
                          !.decisions = Len(decisions)]
  /\ UNCHANGED <<xposition, orders, decisions, obeyed>>

Executor == <<account, pairing, seq, requests, history>>

Next ==
  \/ BeginEvent \/ Submit \/ Work
  \/ \E i \in DOMAIN requests : TimeOut(i)
  \/ OnUserData
  \/ Restart
  \/ Market /\ UNCHANGED Executor
  \/ Connect /\ UNCHANGED Executor
  \/ /\ MayFail /\ Drop
     /\ life' = [life EXCEPT !.drops = @ + 1]
     /\ UNCHANGED <<account, pairing, seq, requests, reported, decisions, obeyed>>

Spec == Init /\ [][Next]_vars

---------------------------------------------------------------------------

(* Types, and what the records of one order say of each other: every       *)
(* request, pending decision and partial sum belongs to a known one.       *)
TypeOK ==
  /\ position \in Int /\ xposition \in Int
  /\ book \subseteq (Ids \X {"limit", "stop"})
  /\ \A o, p \in book : o[1] = p[1] => o = p
  /\ DOMAIN pending \subseteq Ids \cup ToSet(MarketIds)
  /\ \A id \in DOMAIN pending : pending[id].decision \in DOMAIN decisions
  /\ DOMAIN partial \subseteq {k \in DOMAIN orders : orders[k].executed # 0}
  /\ \A i \in DOMAIN requests : /\ requests[i].tries \in 0..(MaxTries - 1)
                                /\ requests[i].decision \in DOMAIN decisions
  /\ reported \subseteq DOMAIN decisions

(* A market action that was decided as a pure reduction never opens, grows *)
(* or flips the real position, however stale the position it was decided   *)
(* on, whatever filled in between and however often it was sent.           *)
CloseNeverOpens ==
  [][\A k \in DOMAIN orders :
       /\ orders'[k].executed # orders[k].executed
       /\ decisions[orders[k].decision].closing
       => /\ Magnitude(xposition') < Magnitude(xposition)
          /\ xposition' * xposition >= 0]_vars

OwnTrades == {t \in trades : t.own}
DecisionOf(t) == orders[t.order].decision

(* An order's fills end in one Trade of its whole executed quantity; when  *)
(* no message was lost, with the fees of all of them, and once nothing is  *)
(* under way every order that executed and ended has its Trade.            *)
RecordedOnce ==
  /\ \A t \in trades : t.quantity = orders[t.order].executed
  /\ \A t, u \in trades : t.order = u.order => t = u
  /\ \A t \in OwnTrades : t.whole => t.paid = orders[t.order].fills
  /\ stream = <<>> /\ link = "open" /\ ~missed =>
       \A k \in DOMAIN orders :
         k > life.orders /\ ~IsOpen(k) /\ orders[k].executed # 0 =>
           \E t \in trades : t.order = k

(* A fill is paired with the decision its order was sent for or with none; *)
(* with its own whenever that was a resting order accepted once.           *)
PairedExactly ==
  \A t \in OwnTrades :
    /\ t.decision \in {None, DecisionOf(t)}
    /\ LET d == decisions[DecisionOf(t)]
       IN d.kind # "market" /\ d.placed = 1 => t.decision = DecisionOf(t)

(* Nothing under way: no request, no message. *)
AtRest == requests = <<>> /\ stream = <<>> /\ algoStream = <<>> /\ link = "open"

OnExchange(id) == \E k \in DOMAIN orders :
  IsOpen(k) /\ orders[k].id = id /\ orders[k].kind # "market"
CancelFailed(id) == \E n \in reported :
  decisions[n].kind = "cancel" /\ decisions[n].id \in {id, All}
AcceptedOnce(id) == \A n \in DOMAIN decisions :
  decisions[n].id = id => decisions[n].placed <= 1

(* At rest the strategy sees the account as it is: the position, and the   *)
(* open orders but for those whose cancel is known to have failed or that  *)
(* a lost reply made the client send twice.                                *)
MirrorAtRest ==
  AtRest /\ ~missed =>
    /\ position = xposition
    /\ \A id \in Ids : CancelFailed(id) \/ ~AcceptedOnce(id)
                       \/ (Listed(id) <=> OnExchange(id))

(* status is the exchange's truth, after a start as well. *)
StatusIsTruth == AtRest /\ life.drops = 0 => position = xposition

(* An action of this process that did nothing is under way or reported: an *)
(* order the exchange never accepted, and a cancel it never carried out.   *)
NoSilentFailure ==
  \A n \in DOMAIN decisions :
    n > life.decisions =>
      \/ decisions[n].placed > 0
      \/ n \in obeyed
      \/ n \in reported
      \/ \E i \in DOMAIN requests : requests[i].decision = n

=============================================================================

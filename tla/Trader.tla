------------------------------- MODULE Trader ------------------------------
(***************************************************************************)
(* How the trader starts and stops: core/trader/trader.py, with the main   *)
(* coroutine of core/examples/trader.py that owns it.                      *)
(*                                                                         *)
(* One event loop runs the main coroutine, which starts the trader, waits  *)
(* while it runs and in any case stops it, and the tasks start() spawns:   *)
(* the engine, the listener of the user stream and the clock's resync, the *)
(* last two in live mode only.  The engine's end and the loss of the user  *)
(* stream stop the trader too.  A stop cancels every other task, so that   *)
(* the main coroutine's stop cuts off a stop that a task has begun, at     *)
(* whatever it awaits.                                                     *)
(*                                                                         *)
(* A step is what runs between two awaits.                                 *)
(***************************************************************************)
EXTENDS Integers, Sequences, FiniteSets

CONSTANTS
  EarlyLoss   \* whether the user stream may be lost for good while the
              \* candle socket is still being opened

ASSUME LossAssumption == EarlyLoss \in BOOLEAN

VARIABLES
  live,        \* not dry_run
  running,     \* is_running
  refs,        \* what the trader holds: client, producer, user_socket, executor
  open,        \* what is open: connections, and the order client's threads
  recorder,    \* "none", "open" or "closed"
  streaming,   \* the producer's _running
  pc,          \* where each coroutine is
  result,      \* the task that waits for an order's result
  stops,       \* history: how many stops have begun
  excused      \* history: closing something raised, or the user interrupted
               \* the start

vars == <<live, running, refs, open, recorder, streaming, pc, result, stops, excused>>

Tasks == {"engine", "listener", "resync"}
Resources == {"client", "candles", "user", "orders"}
Starting == {"client", "executor", "fetcher", "warmup", "userSocket", "candleSocket"}

(* What stop() awaits, in this order.                                      *)
Closing == <<"closeCandles", "closeUser", "closeOrders", "drain", "closeClient">>
ClosingSteps == {Closing[i] : i \in DOMAIN Closing}
Needs(step) ==
  CASE step = "closeCandles" -> "candles" [] step = "closeUser" -> "user"
    [] step \in {"closeOrders", "drain"} -> "orders" [] step = "closeClient" -> "client"

TypeOK ==
  /\ live \in BOOLEAN /\ running \in BOOLEAN /\ streaming \in BOOLEAN /\ excused \in BOOLEAN
  /\ refs \subseteq Resources /\ open \subseteq Resources
  /\ recorder \in {"none", "open", "closed"}
  /\ pc.main \in Starting \cup {"loop", "done"} \cup ClosingSteps
  /\ pc.engine \in {"unborn", "wait", "work", "over"} \cup ClosingSteps
  /\ pc.listener \in {"unborn", "recv", "deliver", "over"} \cup ClosingSteps
  /\ pc.resync \in {"unborn", "sleep", "over"}
  /\ result \in {"none", "pending", "reported", "cancelled"}
  /\ stops \in Nat

Init ==
  /\ live \in BOOLEAN
  /\ running = FALSE
  /\ refs = {} /\ open = {}
  /\ recorder = "none"
  /\ streaming = FALSE
  /\ pc = [main |-> "client", engine |-> "unborn", listener |-> "unborn", resync |-> "unborn"]
  /\ result = "none"
  /\ stops = 0
  /\ excused = FALSE

Over(p) == IF p = "main" THEN "done" ELSE "over"
Stopping(p) == pc[p] \in ClosingSteps

(* The first step of stop() from the i-th on that has something to close.  *)
ClosingFrom(p, i, held) ==
  LET due == {j \in i..Len(Closing) : Needs(Closing[j]) \in held}
  IN IF due = {} THEN Over(p) ELSE Closing[CHOOSE j \in due : \A k \in due : j <= k]

Recorded == IF recorder = "open" THEN "closed" ELSE recorder
Spawned(where) == {t \in Tasks : where[t] \notin {"unborn", "over"}}

(* Mutant of Cancelled: no task is cancelled. *)
NoneCancelled(p, where) == {}

(* The tasks a stop of p cancels.  Cancelling one that waits in            *)
(* drain_pending_orders cancels the result tasks it gathers.               *)
Cancelled(p, where) == Spawned(where) \ {p}

(* stop(), up to its first await.                                          *)
BeginStop(p, where, held) ==
  /\ running' = FALSE
  /\ recorder' = Recorded
  /\ streaming' = (streaming /\ "candles" \notin held)
  /\ pc' = [q \in DOMAIN where |-> IF q = p THEN ClosingFrom(p, 1, held)
                                   ELSE IF q \in Cancelled(p, where) THEN "over" ELSE where[q]]
  /\ result' = IF result = "pending" /\ \E q \in Cancelled(p, where) : where[q] = "drain"
               THEN "cancelled" ELSE result
  /\ stops' = stops + 1

At(p, where) == [pc EXCEPT ![p] = where]

(***************************************************************************)
(* start().                                                                *)
(***************************************************************************)
CreateClient ==
  /\ pc.main = "client"
  /\ open' = open \cup {"client"}
  /\ refs' = refs \cup {"client", "candles"}   \* the producer, not yet connected
  /\ pc' = At("main", "executor")
  /\ UNCHANGED <<live, running, recorder, streaming, result, stops, excused>>

(* The executor, and at once the recorder: one is not asked for, or fails  *)
(* to be made and is left out.                                             *)
CreateExecutor ==
  /\ pc.main = "executor"
  /\ open' = open \cup (IF live THEN {"orders"} ELSE {})
  /\ refs' = refs \cup (IF live THEN {"orders"} ELSE {})
  /\ recorder' \in {"none", "open"}
  /\ pc' = At("main", "fetcher")
  /\ UNCHANGED <<live, running, streaming, result, stops, excused>>

CreateFetcher ==
  /\ pc.main = "fetcher"
  /\ pc' = At("main", "warmup")
  /\ UNCHANGED <<live, running, refs, open, recorder, streaming, result, stops, excused>>

WarmedUp ==
  /\ pc.main = "warmup"
  /\ running' = TRUE
  /\ refs' = refs \cup (IF live THEN {"user"} ELSE {})
  /\ pc' = At("main", IF live THEN "userSocket" ELSE "candleSocket")
  /\ UNCHANGED <<live, open, recorder, streaming, result, stops, excused>>

ConnectUser ==
  /\ pc.main = "userSocket"
  /\ open' = open \cup {"user"}
  /\ pc' = [pc EXCEPT !.main = "candleSocket", !.listener = "recv"]
  /\ UNCHANGED <<live, running, refs, recorder, streaming, result, stops, excused>>

(* The candle socket is open: start() spawns the last tasks, the resync     *)
(* only for a decision deadline, and returns, and the main coroutine goes  *)
(* on to look at is_running, without an await.                             *)
ConnectCandles ==
  \E resync \in {"unborn"} \cup (IF live THEN {"sleep"} ELSE {}) :
    LET spawned == [pc EXCEPT !.engine = "wait", !.resync = resync]
    IN /\ pc.main = "candleSocket"
       /\ open' = open \cup {"candles"}
       /\ IF running
          THEN /\ streaming' = TRUE
               /\ pc' = [spawned EXCEPT !.main = "loop"]
               /\ UNCHANGED <<running, recorder, result, stops>>
          ELSE BeginStop("main", spawned, refs)
       /\ UNCHANGED <<live, refs, excused>>

(* What start() awaits raises: the exception passes through start() to the *)
(* main coroutine's finally.                                               *)
StartFails ==
  /\ pc.main \in Starting
  /\ BeginStop("main", pc, refs)
  /\ UNCHANGED <<live, refs, open, excused>>

(* Ctrl-C cancels the main coroutine.  Cancelled inside LiveExecutor.create *)
(* it leaves the order client's threads to nobody.                         *)
Interrupt ==
  /\ pc.main \in Starting \cup {"loop"}
  /\ BeginStop("main", pc, refs)
  /\ open' \in {open} \cup
       (IF pc.main = "executor" /\ live THEN {open \cup {"orders"}} ELSE {})
  /\ excused' = (excused \/ pc.main \in Starting)
  /\ UNCHANGED <<live, refs>>

(***************************************************************************)
(* While it runs.                                                          *)
(***************************************************************************)
(* Mutant of SeeStopped: the loop of main does not look at is_running. *)
NeverSee == FALSE /\ UNCHANGED vars

(* main: while trader.is_running: sleep.                                   *)
SeeStopped ==
  /\ pc.main = "loop" /\ ~running
  /\ BeginStop("main", pc, refs)
  /\ UNCHANGED <<live, refs, open, excused>>

TakeEvent ==
  /\ pc.engine = "wait" /\ streaming
  /\ pc' = At("engine", "work")
  /\ UNCHANGED <<live, running, refs, open, recorder, streaming, result, stops, excused>>

(* The event is done; a live engine may have submitted an order.           *)
EventDone ==
  /\ pc.engine = "work"
  /\ pc' = At("engine", "wait")
  /\ result' \in {result} \cup (IF live THEN {"pending"} ELSE {})
  /\ UNCHANGED <<live, running, refs, open, recorder, streaming, stops, excused>>

(* The stream ends, or breaks at an event: the engine closes the recorder  *)
(* and _run_engine stops the trader.                                       *)
StreamEnds ==
  /\ pc.engine \in {"wait", "work"}
  /\ IF running
     THEN BeginStop("engine", pc, refs)
     ELSE /\ recorder' = Recorded
          /\ pc' = At("engine", "over")
          /\ UNCHANGED <<running, streaming, result, stops>>
  /\ UNCHANGED <<live, refs, open, excused>>

UserMessage ==
  /\ pc.listener = "recv"
  /\ pc' = At("listener", IF running THEN "deliver" ELSE "over")
  /\ UNCHANGED <<live, running, refs, open, recorder, streaming, result, stops, excused>>

(* Whatever the executor or the callbacks do with it, the listener goes on. *)
Delivered ==
  /\ pc.listener = "deliver"
  /\ pc' = At("listener", IF running THEN "recv" ELSE "over")
  /\ UNCHANGED <<live, running, refs, open, recorder, streaming, result, stops, excused>>

UserStreamLost ==
  /\ pc.listener = "recv"
  /\ EarlyLoss \/ pc.main # "candleSocket"
  /\ IF running
     THEN BeginStop("listener", pc, refs)
     ELSE /\ pc' = At("listener", "over")
          /\ UNCHANGED <<running, recorder, streaming, result, stops>>
  /\ UNCHANGED <<live, refs, open, excused>>

(* An order's result arrives and is reported.                              *)
ResultArrives ==
  /\ result = "pending"
  /\ result' = "reported"
  /\ UNCHANGED <<live, running, refs, open, recorder, streaming, pc, stops, excused>>

(***************************************************************************)
(* The rest of stop(), from await to await.                                *)
(***************************************************************************)
StepOf(p) == CHOOSE i \in DOMAIN Closing : Closing[i] = pc[p]

(* The executor is not forgotten: a second stop closes it again.           *)
Close(p) ==
  /\ Stopping(p)
  /\ pc[p] = "drain" => result # "pending"
  /\ LET closed == Needs(pc[p])
         held == IF closed = "orders" THEN refs ELSE refs \ {closed}
     IN /\ open' = open \ {closed}
        /\ refs' = held
        /\ pc' = At(p, ClosingFrom(p, StepOf(p) + 1, held))
  /\ UNCHANGED <<live, running, recorder, streaming, result, stops, excused>>

(* Closing raises: it is logged, and what is left stays as it is.          *)
CloseRaises(p) ==
  /\ Stopping(p) /\ pc[p] # "drain"
  /\ pc' = At(p, Over(p))
  /\ excused' = (excused \/ p = "main")
  /\ UNCHANGED <<live, running, refs, open, recorder, streaming, result, stops>>

Start ==
  CreateClient \/ CreateExecutor \/ CreateFetcher \/ WarmedUp \/ ConnectUser \/ ConnectCandles

Stoppers == {"main", "engine", "listener"}

Next ==
  \/ Start \/ StartFails \/ Interrupt \/ SeeStopped
  \/ TakeEvent \/ EventDone \/ StreamEnds
  \/ UserMessage \/ Delivered \/ UserStreamLost \/ ResultArrives
  \/ \E p \in Stoppers : Close(p) \/ CloseRaises(p)

(* What is awaited ends, and the loop of main wakes up every second.  The  *)
(* stream, the user and the exchange owe nothing.                          *)
Fairness ==
  /\ WF_vars(Start) /\ WF_vars(SeeStopped) /\ WF_vars(ResultArrives)
  /\ \A p \in Stoppers : WF_vars(Close(p))

Spec == Init /\ [][Next]_vars /\ Fairness

(***************************************************************************)
(* Properties.                                                             *)
(***************************************************************************)
(* Once a stop has begun nobody else acts: no event is being processed and *)
(* no message delivered, the recorder takes no more, and of the two stops  *)
(* there can be (the comment at trader.py:259) only one is in progress,    *)
(* the second having cut off the first.                                    *)
StopTakesOver ==
  /\ stops <= 2
  /\ Cardinality({p \in Stoppers : Stopping(p)}) <= 1
  /\ stops > 0 =>
       /\ recorder # "open"
       /\ pc.engine # "work" /\ pc.listener # "deliver"

(* However the trader is stopped, and wherever the first stop is cut off,   *)
(* main ends, and everything that was opened is closed unless closing      *)
(* raises or the user interrupts the start.                                *)
EndsClosed == (stops > 0) ~> (pc.main = "done" /\ (open = {} \/ excused))

(* No order result is thrown away by a stop: "the last failure is sure to   *)
(* be logged" (live.py:416).                                               *)
ResultsDrained == result # "cancelled"
============================================================================

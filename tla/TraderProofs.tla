---------------------------- MODULE TraderProofs ----------------------------
(***************************************************************************)
(* Proofs about Trader: in every interleaving of the main coroutine with   *)
(* the engine, the listener and the resync, and wherever the start fails   *)
(* or is interrupted, a stop is taken over by at most one other and stops  *)
(* everything else.                                                        *)
(***************************************************************************)
EXTENDS Trader, FiniteSetTheorems, TLAPS

Coroutines == {"main", "engine", "listener", "resync"}
Ended(t) == pc[t] \in {"unborn", "over"}

Places ==
  /\ DOMAIN pc = Coroutines
  /\ pc["main"] \in Starting \cup {"loop", "done"} \cup ClosingSteps
  /\ recorder \in {"none", "open", "closed"}
  /\ running \in BOOLEAN
  /\ stops \in Nat

(* start() has spawned no task but the listener, and that one last.        *)
NotYetSpawned ==
  pc["main"] \in Starting =>
    /\ pc["engine"] = "unborn" /\ pc["resync"] = "unborn"
    /\ pc["main"] # "candleSocket" => pc["listener"] = "unborn" /\ stops = 0

(* The first stop takes is_running down, and only main begins another.     *)
StopsCounted ==
  /\ running => stops = 0
  /\ pc["main"] \in Starting \cup {"loop"} => stops <= 1
  /\ stops <= 2

(* After the first stop no task works, and at most one goes on stopping.   *)
TasksStopped ==
  /\ stops > 0 =>
       /\ recorder # "open"
       /\ \A t \in {"engine", "listener"} : Ended(t) \/ pc[t] \in ClosingSteps
  /\ pc["engine"] \notin ClosingSteps \/ pc["listener"] \notin ClosingSteps

(* main's own stop leaves no task.                                         *)
MainStopsAll ==
  pc["main"] \in {"done"} \cup ClosingSteps => stops > 0 /\ \A t \in Tasks : Ended(t)

(***************************************************************************)
(* The inductive invariant.                                                *)
(***************************************************************************)
TraderInv == Places /\ NotYetSpawned /\ StopsCounted /\ TasksStopped /\ MainStopsAll

-----------------------------------------------------------------------------
LEMMA ClosingNames ==
  ClosingSteps = {"closeCandles", "closeUser", "closeOrders", "drain", "closeClient"}
<1>1. DOMAIN Closing = 1..5
  BY DEF Closing
<1>2. /\ Closing[1] = "closeCandles" /\ Closing[2] = "closeUser" /\ Closing[3] = "closeOrders"
      /\ Closing[4] = "drain" /\ Closing[5] = "closeClient"
  BY DEF Closing
<1>3. ASSUME NEW i \in 1..5 PROVE i = 1 \/ i = 2 \/ i = 3 \/ i = 4 \/ i = 5
  OBVIOUS
<1> QED
  BY <1>1, <1>2, <1>3 DEF ClosingSteps

(***************************************************************************)
(* What stop() awaits next is one of its steps, or it is over.             *)
(***************************************************************************)
LEMMA NextStep ==
  ASSUME NEW p, NEW i \in Nat \ {0}, NEW held
  PROVE  ClosingFrom(p, i, held) \in ClosingSteps \cup {Over(p)}
<1> DEFINE due == {j \in i..Len(Closing) : Needs(Closing[j]) \in held}
           first == CHOOSE j \in due : \A k \in due : j <= k
<1>1. Len(Closing) = 5 /\ DOMAIN Closing = 1..5
  BY DEF Closing
<1>2. due \in SUBSET (1..5)
  BY <1>1
<1>3. CASE due # {}
  <2> HIDE DEF due
  <2>1. \E j \in due : \A k \in due : j <= k
    <3>1. ASSUME NEW j \in due PROVE j \in 1..5
      BY <1>2
    <3>2. CASE 1 \in due BY <3>1, <3>2
    <3>3. CASE 1 \notin due /\ 2 \in due BY <3>1, <3>3
    <3>4. CASE 1 \notin due /\ 2 \notin due /\ 3 \in due BY <3>1, <3>4
    <3>5. CASE 1 \notin due /\ 2 \notin due /\ 3 \notin due /\ 4 \in due BY <3>1, <3>5
    <3>6. CASE 1 \notin due /\ 2 \notin due /\ 3 \notin due /\ 4 \notin due BY <1>3, <3>1, <3>6
    <3> QED
      BY <3>2, <3>3, <3>4, <3>5, <3>6
  <2>2. first \in due
    BY <2>1
  <2>3. Closing[first] \in ClosingSteps
    <3> HIDE DEF first
    <3> QED BY <1>1, <1>2, <2>2 DEF ClosingSteps
  <2>4. ClosingFrom(p, i, held) = Closing[first]
    <3> HIDE DEF first
    <3> QED BY <1>3 DEF ClosingFrom, due, first
  <2> QED
    BY <2>3, <2>4
<1>4. CASE due = {}
  BY <1>4 DEF ClosingFrom
<1> QED
  BY <1>3, <1>4

(***************************************************************************)
(* The synchronous part of stop(): whoever begins it, from wherever the    *)
(* coroutines are, it is counted, and every other task is over.            *)
(***************************************************************************)
LEMMA StopEffect ==
  ASSUME Places, NEW p \in Stoppers, NEW where, DOMAIN where = Coroutines, NEW held,
         BeginStop(p, where, held)
  PROVE  /\ running' = FALSE /\ stops' = stops + 1
         /\ recorder' \in {"none", "closed"}
         /\ DOMAIN pc' = Coroutines
         /\ pc'[p] \in ClosingSteps \cup {Over(p)}
         /\ \A t \in Tasks : t # p => pc'[t] \in {"unborn", "over"}
         /\ p # "main" => pc'["main"] = where["main"]
<1>1. /\ running' = FALSE /\ stops' = stops + 1 /\ recorder' = Recorded
      /\ pc' = [q \in DOMAIN where |-> IF q = p THEN ClosingFrom(p, 1, held)
                                       ELSE IF q \in Cancelled(p, where) THEN "over"
                                       ELSE where[q]]
  BY DEF BeginStop
<1>2. recorder' \in {"none", "closed"}
  BY <1>1 DEF Recorded, Places
<1>3. p \in Coroutines
  BY DEF Stoppers, Coroutines
<1>4. pc'[p] \in ClosingSteps \cup {Over(p)}
  <2>1. pc'[p] = ClosingFrom(p, 1, held)
    BY <1>1, <1>3
  <2> QED
    BY <2>1, NextStep
<1>5. \A t \in Tasks : t # p => pc'[t] \in {"unborn", "over"}
  BY <1>1 DEF Tasks, Coroutines, Cancelled, Spawned
<1>6. p # "main" => pc'["main"] = where["main"]
  BY <1>1 DEF Coroutines, Cancelled, Spawned, Tasks
<1>7. DOMAIN pc' = Coroutines
  BY <1>1
<1> QED
  BY <1>1, <1>2, <1>4, <1>5, <1>6, <1>7

-----------------------------------------------------------------------------
LEMMA InitTrader == Init => TraderInv
<1> SUFFICES ASSUME Init PROVE TraderInv
  OBVIOUS
<1>1. /\ pc["main"] = "client" /\ pc["engine"] = "unborn" /\ pc["listener"] = "unborn"
      /\ pc["resync"] = "unborn" /\ DOMAIN pc = Coroutines
  BY DEF Init, Coroutines
<1>2. stops = 0 /\ recorder = "none" /\ running = FALSE
  BY DEF Init
<1>3. Places
  BY <1>1, <1>2 DEF Places, Starting
<1>4. NotYetSpawned
  BY <1>1, <1>2 DEF NotYetSpawned
<1>5. StopsCounted
  BY <1>2 DEF StopsCounted
<1>6. TasksStopped
  BY <1>1, <1>2, ClosingNames DEF TasksStopped
<1>7. MainStopsAll
  BY <1>1, ClosingNames DEF MainStopsAll
<1> QED
  BY <1>3, <1>4, <1>5, <1>6, <1>7 DEF TraderInv

(***************************************************************************)
(* main begins its stop, from the start or from its loop.                  *)
(***************************************************************************)
LEMMA MainBeginsStop ==
  ASSUME TraderInv, pc["main"] \in Starting \cup {"loop"},
         NEW where, DOMAIN where = Coroutines, BeginStop("main", where, refs)
  PROVE  TraderInv'
<1>1. /\ running' = FALSE /\ stops' = stops + 1
      /\ recorder' \in {"none", "closed"} /\ DOMAIN pc' = Coroutines
      /\ pc'["main"] \in ClosingSteps \cup {"done"}
      /\ \A t \in Tasks : pc'[t] \in {"unborn", "over"}
  BY StopEffect DEF TraderInv, Stoppers, Over, Tasks
<1>2. stops \in Nat /\ stops <= 1
  BY DEF TraderInv, StopsCounted, Places
<1>3. Places'
  <2>1. running' \in BOOLEAN
    BY <1>1
  <2>2. stops' \in Nat
    BY <1>1, <1>2
  <2>3. recorder' \in {"none", "open", "closed"} /\ DOMAIN pc' = Coroutines
    BY <1>1
  <2>4. pc'["main"] \in Starting \cup {"loop", "done"} \cup ClosingSteps
    BY <1>1
  <2> QED
    BY <2>1, <2>2, <2>3, <2>4 DEF Places
<1>4. NotYetSpawned'
  BY <1>1, ClosingNames DEF NotYetSpawned, Starting
<1>5. ~running'
  BY <1>1
<1>6. StopsCounted'
  BY <1>1, <1>2, <1>5, ClosingNames DEF StopsCounted, Starting
<1>7. TasksStopped'
  BY <1>1, ClosingNames DEF TasksStopped, Tasks, Ended
<1>8. MainStopsAll'
  BY <1>1, <1>2 DEF MainStopsAll, Ended
<1> QED
  BY <1>3, <1>4, <1>6, <1>7, <1>8 DEF TraderInv

(***************************************************************************)
(* A task begins a stop, while the trader runs.                            *)
(***************************************************************************)
LEMMA TaskBeginsStop ==
  ASSUME TraderInv, running, NEW p \in {"engine", "listener"}, ~Ended(p),
         BeginStop(p, pc, refs)
  PROVE  TraderInv'
<1>1. /\ running' = FALSE /\ stops' = stops + 1
      /\ recorder' \in {"none", "closed"} /\ DOMAIN pc' = Coroutines
      /\ pc'[p] \in ClosingSteps \cup {"over"}
      /\ \A t \in Tasks : t # p => pc'[t] \in {"unborn", "over"}
      /\ pc'["main"] = pc["main"]
  BY StopEffect DEF TraderInv, Stoppers, Over, Tasks, Places
<1>2. stops = 0
  BY DEF TraderInv, StopsCounted
<1>3. pc["main"] \notin {"done"} \cup ClosingSteps
  BY DEF TraderInv, MainStopsAll, Tasks
<1>4. pc["main"] \in {"candleSocket", "loop"} /\ (p = "engine" => pc["main"] = "loop")
  BY <1>3 DEF TraderInv, Places, NotYetSpawned, Starting, Ended
<1>5. pc["main"] = "candleSocket" => pc["resync"] = "unborn" /\ pc["engine"] = "unborn"
  BY DEF TraderInv, NotYetSpawned, Starting
<1>6. pc["main"] = "candleSocket" => pc'["resync"] = "unborn" /\ pc'["engine"] = "unborn"
  BY <1>4, <1>5 DEF BeginStop, Cancelled, Spawned, Tasks, TraderInv, Places, Coroutines
<1>7. Places'
  <2>1. running' \in BOOLEAN
    BY <1>1
  <2>2. stops' \in Nat
    BY <1>1, <1>2
  <2>3. recorder' \in {"none", "open", "closed"} /\ DOMAIN pc' = Coroutines
    BY <1>1
  <2>4. pc'["main"] \in Starting \cup {"loop", "done"} \cup ClosingSteps
    BY <1>1, <1>4 DEF Starting
  <2> QED
    BY <2>1, <2>2, <2>3, <2>4 DEF Places
<1>8. NotYetSpawned'
  BY <1>1, <1>4, <1>6 DEF NotYetSpawned, Starting
<1>9. ~running'
  BY <1>1
<1>10. StopsCounted'
  BY <1>1, <1>2, <1>9 DEF StopsCounted
<1>11. TasksStopped'
  BY <1>1, ClosingNames DEF TasksStopped, Tasks, Ended
<1>12. MainStopsAll'
  BY <1>1, <1>4, ClosingNames DEF MainStopsAll
<1> QED
  BY <1>7, <1>8, <1>10, <1>11, <1>12 DEF TraderInv

LEMMA NextTrader == TraderInv /\ [Next]_vars => TraderInv'
<1> SUFFICES ASSUME TraderInv, [Next]_vars PROVE TraderInv'
  OBVIOUS
<1> DEFINE Moves(t, to) == pc' = [pc EXCEPT ![t] = to]
<1>0. DOMAIN pc = Coroutines
  BY DEF TraderInv, Places
<1>1. CASE CreateClient \/ CreateExecutor \/ CreateFetcher \/ WarmedUp
  <2>1. /\ pc["main"] \in Starting /\ pc["main"] # "candleSocket"
        /\ stops' = stops
        /\ recorder' \in {recorder, "none", "open"}
        /\ running' \in BOOLEAN
        /\ \E to \in Starting : pc' = [pc EXCEPT !["main"] = to]
    BY <1>1 DEF CreateClient, CreateExecutor, CreateFetcher, WarmedUp, At, Starting, TraderInv, Places
  <2>2. stops = 0
    BY <2>1 DEF TraderInv, NotYetSpawned
  <2>3. PICK to \in Starting : pc' = [pc EXCEPT !["main"] = to]
    BY <2>1
  <2>4. DOMAIN pc' = Coroutines /\ pc'["main"] = to /\ \A t \in Tasks : pc'[t] = pc[t]
    BY <1>0, <2>3 DEF Coroutines, Tasks
  <2>5. pc["engine"] = "unborn" /\ pc["resync"] = "unborn" /\ pc["listener"] = "unborn"
    BY <2>1 DEF TraderInv, NotYetSpawned
  <2>6. Places'
    BY <2>1, <2>2, <2>4 DEF TraderInv, Places
  <2>7. NotYetSpawned' /\ StopsCounted'
    BY <2>1, <2>2, <2>4, <2>5 DEF NotYetSpawned, StopsCounted, Tasks
  <2>8. TasksStopped' /\ MainStopsAll'
    BY <2>1, <2>2, <2>3, <2>4, <2>5, ClosingNames DEF TasksStopped, MainStopsAll, Starting, Tasks
  <2> QED
    BY <2>6, <2>7, <2>8 DEF TraderInv
<1>2. CASE ConnectUser
  <2>1. /\ pc["main"] = "userSocket"
        /\ UNCHANGED <<running, recorder, stops>>
        /\ pc' = [pc EXCEPT !["main"] = "candleSocket", !["listener"] = "recv"]
    BY <1>2 DEF ConnectUser
  <2>2. stops = 0
    BY <2>1 DEF TraderInv, NotYetSpawned, Starting
  <2> QED
    BY <1>0, <2>1, <2>2, ClosingNames DEF TraderInv, Places, NotYetSpawned, StopsCounted,
       TasksStopped, MainStopsAll, Coroutines, Starting, Tasks, Ended
<1>3. CASE ConnectCandles
  <2>1. PICK resync \in {"unborn", "sleep"} :
          LET spawned == [pc EXCEPT !["engine"] = "wait", !["resync"] = resync]
          IN /\ pc["main"] = "candleSocket"
             /\ IF running
                THEN /\ pc' = [spawned EXCEPT !["main"] = "loop"]
                     /\ UNCHANGED <<running, recorder, stops>>
                ELSE BeginStop("main", spawned, refs)
    BY <1>3 DEF ConnectCandles
  <2> DEFINE spawned == [pc EXCEPT !["engine"] = "wait", !["resync"] = resync]
  <2>2. CASE running
    <3>1. stops = 0
      BY <2>2 DEF TraderInv, StopsCounted
    <3>2. /\ pc' = [pc EXCEPT !["engine"] = "wait", !["resync"] = resync, !["main"] = "loop"]
          /\ UNCHANGED <<running, recorder, stops>>
      BY <2>1, <2>2
    <3> QED
      BY <1>0, <2>1, <3>1, <3>2, ClosingNames DEF TraderInv, Places, NotYetSpawned,
         StopsCounted, TasksStopped, MainStopsAll, Coroutines, Starting, Tasks, Ended
  <2>3. CASE ~running
    <3>1. DOMAIN spawned = Coroutines /\ BeginStop("main", spawned, refs)
      BY <1>0, <2>1, <2>3
    <3>2. pc["main"] \in Starting
      BY <2>1 DEF Starting
    <3> QED
      BY <3>1, <3>2, MainBeginsStop
  <2> QED
    BY <2>2, <2>3
<1>4. CASE StartFails \/ Interrupt \/ SeeStopped
  <2>1. pc["main"] \in Starting \cup {"loop"} /\ BeginStop("main", pc, refs)
    BY <1>4 DEF StartFails, Interrupt, SeeStopped
  <2> QED
    BY <1>0, <2>1, MainBeginsStop
<1>5. CASE TakeEvent \/ EventDone
  <2>1. /\ pc["engine"] \in {"wait", "work"}
        /\ UNCHANGED <<running, recorder, stops>>
        /\ \E to \in {"wait", "work"} : pc' = [pc EXCEPT !["engine"] = to]
    BY <1>5 DEF TakeEvent, EventDone, At
  <2>2. stops = 0 /\ pc["main"] \notin {"done"} \cup ClosingSteps
    BY <2>1, ClosingNames DEF TraderInv, TasksStopped, MainStopsAll, Ended, Tasks, Places
  <2> QED
    BY <1>0, <2>1, <2>2, ClosingNames DEF TraderInv, Places, NotYetSpawned, StopsCounted,
       TasksStopped, MainStopsAll, Coroutines, Starting, Tasks, Ended
<1>6. CASE StreamEnds
  <2>1. pc["engine"] \in {"wait", "work"}
    BY <1>6 DEF StreamEnds
  <2>2. ~Ended("engine")
    BY <2>1 DEF Ended
  <2>3. CASE running
    BY <1>6, <2>2, <2>3, TaskBeginsStop DEF StreamEnds
  <2>4. CASE ~running
    <3>1. /\ UNCHANGED <<running, stops>> /\ recorder' = Recorded
          /\ pc' = [pc EXCEPT !["engine"] = "over"]
      BY <1>6, <2>4 DEF StreamEnds, At
    <3>2. stops = 0 /\ pc["main"] \notin {"done"} \cup ClosingSteps
      BY <2>1, ClosingNames DEF TraderInv, TasksStopped, MainStopsAll, Ended, Tasks, Places
    <3>3. recorder' \in {"none", "closed"}
      BY <3>1 DEF Recorded, TraderInv, Places
    <3> QED
      BY <1>0, <2>1, <3>1, <3>2, <3>3, ClosingNames DEF TraderInv, Places, NotYetSpawned,
         StopsCounted, TasksStopped, MainStopsAll, Coroutines, Starting, Tasks, Ended
  <2> QED
    BY <2>3, <2>4
<1>7. CASE UserMessage \/ Delivered
  <2>1. /\ pc["listener"] \in {"recv", "deliver"}
        /\ UNCHANGED <<running, recorder, stops>>
        /\ \E to \in {"recv", "deliver", "over"} : pc' = [pc EXCEPT !["listener"] = to]
    BY <1>7 DEF UserMessage, Delivered, At
  <2>2. stops = 0 /\ pc["main"] \notin {"done"} \cup ClosingSteps
    BY <2>1, ClosingNames DEF TraderInv, TasksStopped, MainStopsAll, Ended, Tasks, Places
  <2> QED
    BY <1>0, <2>1, <2>2, ClosingNames DEF TraderInv, Places, NotYetSpawned, StopsCounted,
       TasksStopped, MainStopsAll, Coroutines, Starting, Tasks, Ended
<1>8. CASE UserStreamLost
  <2>1. pc["listener"] = "recv"
    BY <1>8 DEF UserStreamLost
  <2>2. ~Ended("listener")
    BY <2>1 DEF Ended
  <2>3. stops = 0 /\ pc["main"] \notin {"done"} \cup ClosingSteps
    BY <2>1, ClosingNames DEF TraderInv, TasksStopped, MainStopsAll, Ended, Tasks, Places
  <2>4. CASE running
    BY <1>8, <2>2, <2>3, <2>4, TaskBeginsStop DEF UserStreamLost, TraderInv, Places
  <2>5. CASE ~running
    <3>1. /\ UNCHANGED <<running, recorder, stops>>
          /\ pc' = [pc EXCEPT !["listener"] = "over"]
      BY <1>8, <2>5 DEF UserStreamLost, At
    <3> QED
      BY <1>0, <2>1, <2>3, <3>1, ClosingNames DEF TraderInv, Places, NotYetSpawned,
         StopsCounted, TasksStopped, MainStopsAll, Coroutines, Starting, Tasks, Ended
  <2> QED
    BY <2>4, <2>5
<1>9. ASSUME NEW p \in Stoppers, Close(p) \/ CloseRaises(p)
      PROVE  TraderInv'
  <2>1. /\ pc[p] \in ClosingSteps
        /\ UNCHANGED <<running, recorder, stops>>
    BY <1>9 DEF Close, CloseRaises, Stopping
  <2>2. \E to \in ClosingSteps \cup {Over(p)} : pc' = [pc EXCEPT ![p] = to]
    <3>1. CASE CloseRaises(p)
      BY <3>1 DEF CloseRaises, At
    <3>2. CASE Close(p)
      <4>1. StepOf(p) \in DOMAIN Closing
        BY <2>1 DEF StepOf, ClosingSteps
      <4>2. StepOf(p) + 1 \in Nat \ {0}
        BY <4>1 DEF Closing
      <4>3. \E held : pc' = [pc EXCEPT ![p] = ClosingFrom(p, StepOf(p) + 1, held)]
        BY <3>2 DEF Close, At
      <4> QED
        BY <4>2, <4>3, NextStep
    <3> QED
      BY <1>9, <3>1, <3>2
  <2>3. PICK to \in ClosingSteps \cup {Over(p)} : pc' = [pc EXCEPT ![p] = to]
    BY <2>2
  <2>4. p \in {"main", "engine", "listener"} /\ Over(p) = IF p = "main" THEN "done" ELSE "over"
    BY DEF Stoppers, Over
  <2>5. CASE p = "main"
    BY <1>0, <2>1, <2>3, <2>4, <2>5, ClosingNames DEF TraderInv, Places, NotYetSpawned,
       StopsCounted, TasksStopped, MainStopsAll, Coroutines, Starting, Tasks, Ended
  <2>6. CASE p = "engine"
    BY <1>0, <2>1, <2>3, <2>4, <2>6, ClosingNames DEF TraderInv, Places, NotYetSpawned,
       StopsCounted, TasksStopped, MainStopsAll, Coroutines, Starting, Tasks, Ended
  <2>7. CASE p = "listener"
    BY <1>0, <2>1, <2>3, <2>4, <2>7, ClosingNames DEF TraderInv, Places, NotYetSpawned,
       StopsCounted, TasksStopped, MainStopsAll, Coroutines, Starting, Tasks, Ended
  <2> QED
    BY <2>4, <2>5, <2>6, <2>7
<1>10. CASE ResultArrives \/ UNCHANGED vars
  BY <1>10 DEF ResultArrives, vars, TraderInv, Places, NotYetSpawned, StopsCounted,
     TasksStopped, MainStopsAll, Ended
<1> QED
  BY <1>1, <1>2, <1>3, <1>4, <1>5, <1>6, <1>7, <1>8, <1>9, <1>10 DEF Next, Start

(***************************************************************************)
(* The invariant of the trader holds in every run of it.                   *)
(***************************************************************************)
THEOREM TraderInvariant == Spec => []TraderInv
  BY InitTrader, NextTrader, PTL DEF Spec

(***************************************************************************)
(* At most two stops begin and one of them is in progress, and from the    *)
(* first on the recorder takes nothing, no event is being processed and no *)
(* message delivered.                                                      *)
(***************************************************************************)
THEOREM TheStopTakesOver == Spec => []StopTakesOver
<1>1. TraderInv => StopTakesOver
  <2> SUFFICES ASSUME TraderInv PROVE StopTakesOver
    OBVIOUS
  <2> DEFINE S == {p \in Stoppers : Stopping(p)}
  <2>1. \A p, q \in S : p = q
    BY ClosingNames DEF Stoppers, Stopping, TraderInv, TasksStopped, MainStopsAll, Tasks, Ended
  <2>2. Cardinality(S) <= 1
    <3>1. CASE S = {}
      <4> HIDE DEF S
      <4> QED BY <3>1, FS_EmptySet
    <3>2. CASE S # {}
      <4>1. PICK p \in S : TRUE
        BY <3>2
      <4>2. S = {p}
        BY <2>1, <4>1
      <4> HIDE DEF S
      <4>3. Cardinality({p}) = 1
        BY FS_Singleton
      <4> QED BY <4>2, <4>3
    <3> QED
      BY <3>1, <3>2
  <2>3. stops <= 2
    BY DEF TraderInv, StopsCounted
  <2>4. stops > 0 => recorder # "open" /\ pc.engine # "work" /\ pc.listener # "deliver"
    BY ClosingNames DEF TraderInv, TasksStopped, Ended
  <2> QED
    BY <2>2, <2>3, <2>4 DEF StopTakesOver
<1> QED
  BY <1>1, TraderInvariant, PTL

=============================================================================

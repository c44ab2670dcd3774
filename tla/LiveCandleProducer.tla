------------------------- MODULE LiveCandleProducer ------------------------
(***************************************************************************)
(* The live candle source: core/producer/live.py, LiveCandleProducer, over *)
(* core/producer/reliable_websocket.py.                                    *)
(*                                                                         *)
(* Two tasks share a queue.  The reader drains the socket, notes when each *)
(* symbol last closed a candle, and queues the closed candles.  The        *)
(* consumer, an async generator, hands them to the engine one at a time    *)
(* and watches for a stall: a symbol silent for the whole deadline ends    *)
(* the stream.  A reconnection postpones the deadline of every symbol, at  *)
(* most once between two closed candles.  The engine may hold an event for *)
(* long (it back-fills), may stop the stream, and so may the trader.       *)
(*                                                                         *)
(* Time is counted in ticks.  The steps of the loop take no time: a tick   *)
(* passes only when the consumer has nothing to do at once.  An event is   *)
(* the symbol whose candle closed; its prices are left out.                *)
(***************************************************************************)
EXTENDS ReliableWebsocket, Sequences, FiniteSetsExt

CONSTANTS
  Symbols,
  Deadline,   \* stall_timeout_s, in ticks
  MaxQueue,   \* bound: closed candles queued at once
  End         \* _STREAM_END

ASSUME SymbolAssumption == Symbols # {} /\ End \notin Symbols
ASSUME DeadlineAssumption == Deadline \in Nat \ {0}

VARIABLES
  running,    \* _running
  fatal,      \* what _fatal was called for: "no", "stall" or "recv"
  reader,     \* where the reader task is
  failed,     \* _reader_failure is set
  events,     \* _events
  recovered,  \* socket.recoveries # _seen_recoveries
  extended,   \* _stall_extended
  silence,    \* per symbol, ticks since _last_close_at, up to Deadline
  consumer,   \* where the generator is
  timer,      \* ticks until the wait for an event times out
  quiet       \* history: ticks the consumer has waited since a symbol last
              \* closed a candle, up to one more than twice the deadline

watch == <<extended, silence>>
vars == <<socket, running, fatal, reader, failed, events, recovered, extended,
          silence, consumer, timer, quiet>>

TypeOK ==
  /\ SocketTypeOK
  /\ running \in BOOLEAN
  /\ fatal \in {"no", "stall", "recv"}
  /\ reader \in {"created", "recv", "reporting", "reconnecting", "done"}
  /\ failed \in BOOLEAN
  /\ events \in Seq(Symbols \cup {End})
  /\ recovered \in BOOLEAN
  /\ extended \in BOOLEAN
  /\ silence \in [Symbols -> 0..Deadline]
  /\ consumer \in {"loop", "waiting", "holding", "ended"}
  /\ timer \in 0..Deadline
  /\ quiet \in [Symbols -> 0..2 * Deadline + 1]

(* connect() has succeeded and __aiter__ has created the reader. *)
Init ==
  /\ SocketInit
  /\ running = TRUE /\ fatal = "no"
  /\ reader = "created" /\ failed = FALSE /\ events = <<>>
  /\ recovered = FALSE /\ extended = FALSE
  /\ silence = [s \in Symbols |-> 0]
  /\ consumer = "loop" /\ timer = 0
  /\ quiet = [s \in Symbols |-> 0]

Longest == Max({silence[s] : s \in Symbols})

---------------------------------------------------------------------------
(* The reader: _read_socket. *)

(* _note_recovery: the first recovery after a closed candle restarts the   *)
(* deadline of every symbol.                                               *)
ExtendsAlways(anew) == anew  \* a faulty variant: however often it recovers
Extends(anew) == anew /\ ~extended
NoteRecovery(anew) ==
  /\ recovered' = FALSE
  /\ extended' = (extended \/ anew)
  /\ silence' = IF Extends(anew) THEN [s \in Symbols |-> 0] ELSE silence

(* A message that is no frame may itself be the library's recovery. *)
Recovery == recovered \/ libraryRecovering

StartReader ==
  /\ reader = "created" /\ reader' = "recv"
  /\ UNCHANGED <<socket, running, fatal, failed, events, recovered, watch,
                 consumer, timer, quiet>>

(* A closed candle of s: _event_from notes the symbol's arrival and lets   *)
(* the next recovery extend the deadline again; the event is queued.       *)
ReadClosed(s) ==
  /\ reader = "recv" /\ Len(events) < MaxQueue
  /\ Message
  /\ recovered' = FALSE
  /\ extended' = FALSE
  /\ silence' = [x \in Symbols |->
                   IF x = s \/ Extends(Recovery) THEN 0 ELSE silence[x]]
  /\ events' = Append(events, s)
  /\ quiet' = [quiet EXCEPT ![s] = 0]
  /\ UNCHANGED <<running, fatal, reader, failed, consumer, timer>>

(* A faulty variant of the next operator: any message, not only a closed   *)
(* candle, lets the next recovery extend the deadline again.               *)
ReadOtherRenews ==
  /\ reader = "recv" /\ reader' \in {"recv", "reporting"}
  /\ Message
  /\ recovered' = FALSE /\ extended' = FALSE
  /\ silence' = IF Extends(Recovery) THEN [s \in Symbols |-> 0] ELSE silence
  /\ UNCHANGED <<running, fatal, failed, events, consumer, timer, quiet>>

(* Any other message: an open candle or an unknown symbol is dropped; one  *)
(* that cannot be parsed is reported through on_error.                     *)
ReadOther ==
  /\ reader = "recv" /\ reader' \in {"recv", "reporting"}
  /\ Message
  /\ NoteRecovery(Recovery)
  /\ UNCHANGED <<running, fatal, failed, events, consumer, timer, quiet>>

(* An error frame is reported through on_error. *)
ReadFrame ==
  /\ reader = "recv" /\ reader' = "reporting"
  /\ LibraryFrame \/ OverFrame \/ ShutdownFrame
  /\ NoteRecovery(recovered)
  /\ UNCHANGED <<running, fatal, failed, events, consumer, timer, quiet>>

(* A faulty variant of the next operator: the reader stops the stream      *)
(* itself when the socket gave up.                                         *)
FailsAtOnce(tries) ==
  /\ GiveUp(tries)
  /\ failed' = TRUE
  /\ running' = FALSE /\ fatal' = "recv"
  /\ reader' = "done"
  /\ events' = Append(events, End)
  /\ UNCHANGED <<recovered, watch, consumer, timer, quiet>>

(* The socket gave up: the reason is kept for the consumer, who finds it   *)
(* after the events that were queued before.                               *)
Fails(tries) ==
  /\ GiveUp(tries)
  /\ failed' = TRUE
  /\ reader' = "done"
  /\ events' = Append(events, End)
  /\ UNCHANGED <<running, fatal, recovered, watch, consumer, timer, quiet>>

(* The library's recv() raises: recv() reconnects at once. *)
RecvRaises ==
  /\ reader = "recv"
  /\ \/ /\ StartReconnect
        /\ reader' = "reconnecting"
        /\ UNCHANGED <<running, fatal, failed, events, recovered, watch,
                       consumer, timer, quiet>>
     \/ Fails(FreshStreak)

ReadRaises == link = "over" /\ RecvRaises

(* on_error has returned: the next recv(). *)
Reported ==
  /\ reader = "reporting"
  /\ \/ /\ ~due /\ reader' = "recv"
        /\ UNCHANGED <<socket, running, fatal, failed, events, recovered,
                       watch, consumer, timer, quiet>>
     \/ /\ due /\ StartReconnect /\ reader' = "reconnecting"
        /\ UNCHANGED <<running, fatal, failed, events, recovered, watch,
                       consumer, timer, quiet>>
     \/ due /\ Fails(FreshStreak)

Reconnect ==
  /\ reader = "reconnecting"
  /\ \/ /\ Connected /\ reader' = "recv" /\ recovered' = TRUE
        /\ UNCHANGED <<running, fatal, failed, events, watch, consumer, timer,
                       quiet>>
     \/ /\ TryAgain
        /\ UNCHANGED <<running, fatal, reader, failed, events, recovered,
                       watch, consumer, timer, quiet>>
     \/ Fails(streak)

Read == (\E s \in Symbols : ReadClosed(s)) \/ ReadOther \/ ReadFrame

---------------------------------------------------------------------------
(* Stopping.  A reader that is cancelled queues the end marker, unless it  *)
(* was cancelled before it took its first step.                            *)

StopReader ==
  /\ reader' = "done"
  /\ events' = IF reader \in {"created", "done"} THEN events
               ELSE Append(events, End)

Stop == running' = FALSE /\ StopReader

(* The trader stops the stream: request_stop(). *)
RequestStop ==
  /\ running
  /\ Stop
  /\ UNCHANGED <<socket, fatal, failed, recovered, watch, consumer, timer,
                 quiet>>

---------------------------------------------------------------------------
(* The consumer: __aiter__. *)

Ends == consumer' = "ended" /\ UNCHANGED <<socket, failed, recovered, watch, timer, quiet>>

(* _fatal, then the generator's finally. *)
Fatal(reason) == fatal' = reason /\ Stop /\ Ends

(* The loop ends without a failure. *)
Leave == StopReader /\ Ends /\ UNCHANGED <<running, fatal>>

(* The head of the loop. *)
Watch ==
  /\ consumer = "loop"
  /\ \/ ~running /\ Leave
     \/ running /\ Longest >= Deadline /\ Fatal("stall")
     \/ /\ running /\ Longest < Deadline
        /\ consumer' = "waiting"
        /\ timer' = Deadline - Longest
        /\ UNCHANGED <<socket, running, fatal, reader, failed, events,
                       recovered, watch, quiet>>

(* A faulty variant of the next operator: the timeout itself is fatal. *)
TimeOutIsFatal == consumer = "waiting" /\ timer = 0 /\ Fatal("stall")

(* wait_for times out: the deadline is judged again at the head. *)
TimeOut ==
  /\ consumer = "waiting" /\ timer = 0
  /\ consumer' = "loop"
  /\ UNCHANGED <<socket, running, fatal, reader, failed, events, recovered,
                 watch, timer, quiet>>

(* A queued item arrives.  An event taken after a stop is not handed out. *)
HandOutAnyway == TRUE  \* a faulty variant
MayHandOut == running
Take ==
  /\ consumer = "waiting" /\ events # <<>>
  /\ \/ /\ Head(events) = End /\ failed /\ running
        /\ fatal' = "recv" /\ running' = FALSE
        /\ reader' = "done" /\ events' = Tail(events)
        /\ Ends
     \/ /\ Head(events) = End /\ ~(failed /\ running)
        /\ reader' = "done" /\ events' = Tail(events)
        /\ Ends /\ UNCHANGED <<running, fatal>>
     \/ /\ Head(events) # End /\ MayHandOut
        /\ consumer' = "holding"
        /\ events' = Tail(events)
        /\ UNCHANGED <<socket, running, fatal, reader, failed, recovered,
                       watch, timer, quiet>>
     \/ /\ Head(events) # End /\ ~MayHandOut
        /\ Leave

(* The engine asks for the next event. *)
Resume ==
  /\ consumer = "holding"
  /\ consumer' = "loop"
  /\ UNCHANGED <<socket, running, fatal, reader, failed, events, recovered,
                 watch, timer, quiet>>

(* The engine stops for a gap it cannot repair: request_stop(), and it     *)
(* leaves the loop.                                                        *)
Abandon ==
  /\ consumer = "holding"
  /\ Stop
  /\ Ends
  /\ UNCHANGED fatal

Consume == Watch \/ TimeOut \/ Take

---------------------------------------------------------------------------

Older(age, limit) == IF age >= limit THEN limit ELSE age + 1

Tick ==
  /\ \/ consumer = "holding"
     \/ consumer = "waiting" /\ timer > 0 /\ events = <<>>
  /\ timer' = IF consumer = "waiting" THEN timer - 1 ELSE timer
  /\ silence' = [s \in Symbols |-> Older(silence[s], Deadline)]
  /\ quiet' = IF consumer = "waiting"
              THEN [s \in Symbols |-> Older(quiet[s], 2 * Deadline + 1)]
              ELSE quiet
  /\ SocketAges
  /\ UNCHANGED <<link, due, libraryRecovering, streak, running, fatal, reader,
                 failed, events, recovered, extended, consumer>>

Next ==
  \/ StartReader \/ Read \/ ReadRaises \/ Reported \/ Reconnect
  \/ RequestStop
  \/ Consume \/ Resume \/ Abandon
  \/ Tick

Spec == Init /\ [][Next]_vars

(* The event loop runs what is ready, time goes on, on_error and a         *)
(* connection attempt return, and the engine settles every event it was    *)
(* handed (TradingEngine, EventSettled).  Nothing is assumed of the        *)
(* network, nor that anybody stops the stream.                             *)
FairSpec ==
  /\ Spec
  /\ WF_vars(Consume) /\ WF_vars(Resume \/ Abandon) /\ WF_vars(Tick)
  /\ WF_vars(StartReader) /\ WF_vars(Reported) /\ WF_vars(Reconnect)

---------------------------------------------------------------------------

(* The socket is opened anew only after the library's read loop is over:   *)
(* never while the library is reconnecting, never while it is connected.   *)
NoDoubleReconnect == reader = "reconnecting" => link = "over"

(* The two layers that reconnect exclude each other: neither opens a       *)
(* socket while the other is at it, and no recovery is counted by both     *)
(* (the comment of _reconnect, "이중 집계 방지").                           *)
OneLayerReconnects == NoDoubleReconnect /\ RecoveryCountedOnce

(* When a reception failure ends the stream, every candle that was queued  *)
(* before it has been handed to the engine.                                *)
FailureComesLast == fatal = "recv" => events = <<>>

(* A stall is declared only when some symbol closed no candle for the      *)
(* whole deadline, counted anew from a reconnection, even one that came    *)
(* while the consumer was already waiting with the old deadline.           *)
StallIsReal ==
  fatal = "stall" => \E s \in Symbols : silence[s] = Deadline

(* A stream on which no symbol closes a candle is caught within twice the  *)
(* deadline, whatever the connection does (module docstring); the time the *)
(* engine held an event does not count.                                    *)
CaughtWithinTwice ==
  consumer = "waiting" => \E s \in Symbols : quiet[s] <= 2 * Deadline

(* The same for each symbol: what the docstring promises of the guard. *)
SymbolCaughtWithinTwice ==
  consumer = "waiting" => \A s \in Symbols : quiet[s] <= 2 * Deadline

(* After request_stop() not even an event that is already queued is handed *)
(* to the engine.                                                          *)
NothingAfterStop ==
  [][consumer' = "holding" /\ consumer # "holding" => running]_vars

(* A stream that brings no more candles, for whatever reason, comes to an  *)
(* end: the process is never left waiting for ever.                        *)
SilentStreamEnds ==
  <>(consumer = "ended") \/ []<>(\E s \in Symbols : quiet[s] = 0)

=============================================================================

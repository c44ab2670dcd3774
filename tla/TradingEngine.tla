--------------------------- MODULE TradingEngine ---------------------------
(***************************************************************************)
(* The driver of a dry or live run: core/engine/trading.py, TradingEngine. *)
(*                                                                         *)
(* The engine warms its indicators up from history, then consumes a stream *)
(* of closed candles.  Per symbol it keeps a continuity anchor, the start  *)
(* of the last candle it took.  A candle at or before the anchor drops its *)
(* whole event; a candle further ahead than one interval makes the engine  *)
(* fetch the missing ones and replay them without a decision; what cannot  *)
(* be repaired ends the stream.  Processing of one candle may raise at any *)
(* stage: the driver hands the exception to on_error and goes on with the  *)
(* next event, or lets it end the run.                                     *)
(*                                                                         *)
(* An action is what the driver does between two awaits, cut where an      *)
(* exception may leave process_event.  A time is an integer and a candle   *)
(* its start time; prices, actions and the status are left out here (see   *)
(* SimExecutor).                                                           *)
(***************************************************************************)
EXTENDS Integers, FiniteSets

CONSTANTS
  Symbols,        \* streamer.symbols
  Interval,       \* producer.interval_ms
  MaxStart,       \* bound: the largest candle start
  MaxBackfill,    \* max_backfill_candles
  Windows,        \* streamer.warmup_windows(): [Symbols -> Nat]
  EventWidth,     \* bound: candles per event (1 on the live socket)
  HasHistory,     \* a CandleHistory was passed
  HandlesErrors,  \* an on_error callback was passed
  NoSymbol

ASSUME SymbolAssumption == NoSymbol \notin Symbols
ASSUME IntervalAssumption == Interval \in Nat \ {0}
ASSUME BoundAssumption == MaxStart \in Nat /\ MaxBackfill \in Nat /\ EventWidth \in Nat
ASSUME WindowAssumption == Windows \in [Symbols -> Nat]
ASSUME ModeAssumption == HasHistory \in BOOLEAN /\ HandlesErrors \in BOOLEAN

Starts == 0..MaxStart
None == -1        \* no anchor: the symbol is not a key of _last_start

VARIABLES
  phase,    \* where the driver is
  anchor,   \* _last_start
  event,    \* the event being handled
  todo,     \* its symbols whose continuity is still to be judged
  current,  \* the symbol being back-filled
  batch,    \* the starts of the fetched candles still to be replayed
  fatal,    \* producer.fatal_reason was set by the engine
  fed,      \* history: how often each candle reached a symbol's indicators
  decided,  \* history: how often decide_action was called on a candle
  lost      \* history: consumed candles whose processing raised before that

engine == <<anchor, event, todo, current, batch>>
seen == <<fed, decided, lost>>
vars == <<phase, anchor, event, todo, current, batch, fatal, fed, decided, lost>>

Phases == {"warmup", "waiting", "checking", "fetching", "replaying",
           "closed", "crashed", "failed"}
Ended == {"closed", "crashed", "failed"}

NoEvent == [start |-> None, symbols |-> {}]
\* Candles of one event close at the same time, so they share the start.
Events == [start : Starts, symbols : SUBSET Symbols]

Consumed(s, c) == fed[s][c] > 0 \/ <<s, c>> \in lost

\* warmup() is called before the stream is opened; the run starts without it
\* when no indicator needs one (max_window == 0).
Init ==
  /\ phase \in {"warmup", "waiting"}
  /\ anchor = [s \in Symbols |-> None]
  /\ event = NoEvent
  /\ todo = {}
  /\ current = NoSymbol
  /\ batch = {}
  /\ fatal = FALSE
  /\ fed = [s \in Symbols |-> [c \in Starts |-> 0]]
  /\ decided = [s \in Symbols |-> [c \in Starts |-> 0]]
  /\ lost = {}

-----------------------------------------------------------------------------
(* Warm-up.                                                                *)

NeedsWarmup == \E s \in Symbols : Windows[s] > 0

\* All symbols are fetched over one range, of the length of the largest window.
WindowLengths == {Windows[s] : s \in Symbols}

(***************************************************************************)
(* What history returns for a symbol: count candles from first on, without *)
(* a hole if gapless.                                                      *)
(***************************************************************************)
Runs == [first : Starts, count : 0..(MaxStart + 1), gapless : BOOLEAN]
CandlesOf(run) == {run.first + i * Interval : i \in 0..(run.count - 1)}
\* Mutant: the anchor of a warmed-up symbol is the end of its last candle.
LastEnd(run) == IF run.count = 0 THEN None ELSE run.first + run.count * Interval

LastOf(run) == IF run.count = 0 THEN None
               ELSE run.first + (run.count - 1) * Interval

\* _check_warmup_candles and the count check, for the range of n candles up to end.
UsableRun(run, window, end, n) ==
  /\ run.gapless
  /\ run.count >= window
  /\ run.count > 0 => /\ end - n * Interval <= run.first
                      /\ run.first + run.count * Interval <= end

(***************************************************************************)
(* The reply for all symbols is judged before any indicator is fed; one    *)
(* bad symbol and the start fails with nothing fed.                        *)
(***************************************************************************)
WarmupReply(now, runs, n) ==
  LET end == (now \div Interval) * Interval
      usable == \A s \in Symbols : UsableRun(runs[s], Windows[s], end, n)
  IN /\ phase = "warmup"
     /\ NeedsWarmup
     /\ HasHistory
     /\ \A s \in Symbols : Windows[s] <= n
     /\ \A s \in Symbols : CandlesOf(runs[s]) \subseteq Starts
     /\ phase' = IF usable THEN "waiting" ELSE "failed"
     /\ IF usable
        THEN /\ fed' = [s \in Symbols |-> [c \in Starts |->
                          IF c \in CandlesOf(runs[s]) THEN fed[s][c] + 1 ELSE fed[s][c]]]
             /\ anchor' = [s \in Symbols |->
                            IF runs[s].count = 0 THEN anchor[s] ELSE LastOf(runs[s])]
        ELSE UNCHANGED <<fed, anchor>>
     /\ UNCHANGED <<event, todo, current, batch, fatal, decided, lost>>

\* No history to ask, or history.fetch raised after its retries.
WarmupError ==
  /\ phase = "warmup"
  /\ NeedsWarmup
  /\ phase' = "failed"
  /\ UNCHANGED <<engine, fatal, seen>>

-----------------------------------------------------------------------------
(* The stream and the continuity check.                                    *)

\* async for event in producer
Receive(e) ==
  /\ phase = "waiting"
  /\ e.symbols # {}
  /\ Cardinality(e.symbols) <= EventWidth
  /\ phase' = "checking"
  /\ event' = e
  /\ todo' = e.symbols
  /\ UNCHANGED <<anchor, current, batch, fatal, seen>>

\* The producer has no more: the loop ends and the recorder is closed.
StreamEnds ==
  /\ phase = "waiting"
  /\ phase' = "closed"
  /\ UNCHANGED <<engine, fatal, seen>>

ForgetEvent == event' = NoEvent /\ todo' = {} /\ current' = NoSymbol /\ batch' = {}

\* _SkipEvent: one candle already taken drops the whole event.
DropSeen(s) ==
  /\ phase = "checking"
  /\ s \in todo
  /\ event.start <= anchor[s]
  /\ phase' = "waiting"
  /\ ForgetEvent
  /\ UNCHANGED <<anchor, fatal, seen>>

Elapsed(s) == event.start - anchor[s]

\* _backfill_gap returns at once.
Continuous(s) ==
  /\ event.start > anchor[s]
  /\ \/ anchor[s] = None
     \/ ~HasHistory
     \/ Elapsed(s) = Interval
IsGap(s) == event.start > anchor[s] /\ ~Continuous(s)
Aligned(s) == Elapsed(s) % Interval = 0
NumMissing(s) == Elapsed(s) \div Interval - 1
Missing(s) == {c \in Starts : /\ anchor[s] < c /\ c < event.start
                              /\ (c - anchor[s]) % Interval = 0}

PassContinuous(s) ==
  /\ phase = "checking"
  /\ s \in todo
  /\ Continuous(s)
  /\ todo' = todo \ {s}
  /\ UNCHANGED <<phase, anchor, event, current, batch, fatal, seen>>

\* _fatal, then the loop breaks and the recorder is closed.
StopFatally ==
  /\ phase' = "closed"
  /\ fatal' = TRUE
  /\ ForgetEvent
  /\ UNCHANGED <<anchor, seen>>

\* A gap with odd boundaries or too many candles is refused, any other is asked for.
JudgeGap(s) ==
  /\ phase = "checking"
  /\ s \in todo
  /\ IsGap(s)
  /\ IF ~Aligned(s) \/ NumMissing(s) > MaxBackfill
     THEN StopFatally
     ELSE /\ phase' = "fetching"
          /\ current' = s
          /\ UNCHANGED <<anchor, event, todo, batch, fatal, seen>>

\* history.fetch raised after its retries.
BackfillError ==
  /\ phase = "fetching"
  /\ StopFatally

\* Mutant: the reply is replayed as it came.
BackfillUnverified(got) ==
  /\ phase = "fetching"
  /\ phase' = "replaying"
  /\ batch' = got
  /\ UNCHANGED <<anchor, event, todo, current, fatal, seen>>

\* history.fetch returned the candles with these starts, in order.
BackfillReply(got) ==
  /\ phase = "fetching"
  /\ IF got = Missing(current)
     THEN /\ phase' = "replaying"
          /\ batch' = got
          /\ UNCHANGED <<anchor, event, todo, current, fatal, seen>>
     ELSE StopFatally

-----------------------------------------------------------------------------
(* process_event.                                                          *)

(***************************************************************************)
(* process_event on the candles c of symbols ss.  ok are the symbols whose *)
(* indicators were all updated before anything raised: fewer than ss when  *)
(* begin_event or an indicator raised, and then decide_action is not       *)
(* reached.  With all of them fed a decision follows if decide is set, and *)
(* raised tells whether a later stage raised.                              *)
(***************************************************************************)
ProcessEvent(ss, c, decide, ok, raised) ==
  /\ ok # ss => raised
  /\ fed' = [s \in Symbols |-> IF s \in ok THEN [fed[s] EXCEPT ![c] = @ + 1] ELSE fed[s]]
  /\ lost' = lost \cup ((ss \ ok) \X {c})
  /\ decided' = [s \in Symbols |-> IF decide /\ ok = ss /\ s \in ss
                                   THEN [decided[s] EXCEPT ![c] = @ + 1]
                                   ELSE decided[s]]

\* The exception of process_event leaves the body of the loop.
AfterRaise == phase' = IF HandlesErrors THEN "waiting" ELSE "crashed"

\* Mutant: a replayed candle is decided on like a delivered one.
ReplayDeciding(c, ok, raised) ==
  /\ phase = "replaying"
  /\ c \in batch
  /\ \A d \in batch : c <= d
  /\ anchor' = [anchor EXCEPT ![current] = c]
  /\ ProcessEvent({current}, c, TRUE, ok, raised)
  /\ IF raised
     THEN AfterRaise /\ ForgetEvent
     ELSE batch' = batch \ {c} /\ UNCHANGED <<phase, event, todo, current>>
  /\ UNCHANGED fatal

\* The next fetched candle: the anchor moves first, and nothing is decided.
Replay(c, ok, raised) ==
  /\ phase = "replaying"
  /\ c \in batch
  /\ \A d \in batch : c <= d
  /\ anchor' = [anchor EXCEPT ![current] = c]
  /\ ProcessEvent({current}, c, FALSE, ok, raised)
  /\ IF raised
     THEN AfterRaise /\ ForgetEvent
     ELSE batch' = batch \ {c} /\ UNCHANGED <<phase, event, todo, current>>
  /\ UNCHANGED fatal

\* Mutant: history is asked again until it has nothing to add.
EndReplayAsksAgain ==
  /\ phase = "replaying"
  /\ batch = {}
  /\ phase' = "fetching"
  /\ UNCHANGED <<engine, fatal, seen>>

EndReplay ==
  /\ phase = "replaying"
  /\ batch = {}
  /\ phase' = "checking"
  /\ todo' = todo \ {current}
  /\ current' = NoSymbol
  /\ UNCHANGED <<anchor, event, batch, fatal, seen>>

\* Mutant: the anchors move only after a processing that did not raise.
LiveThenAnchor(ok, raised) ==
  /\ phase = "checking"
  /\ todo = {}
  /\ anchor' = [s \in Symbols |-> IF s \in event.symbols /\ ~raised
                                  THEN event.start ELSE anchor[s]]
  /\ ProcessEvent(event.symbols, event.start, TRUE, ok, raised)
  /\ IF raised THEN AfterRaise ELSE phase' = "waiting"
  /\ ForgetEvent
  /\ UNCHANGED fatal

\* Every symbol of the event is continuous now: anchors move, then it is processed.
ProcessLive(ok, raised) ==
  /\ phase = "checking"
  /\ todo = {}
  /\ anchor' = [s \in Symbols |-> IF s \in event.symbols THEN event.start ELSE anchor[s]]
  /\ ProcessEvent(event.symbols, event.start, TRUE, ok, raised)
  /\ IF raised THEN AfterRaise ELSE phase' = "waiting"
  /\ ForgetEvent
  /\ UNCHANGED fatal

-----------------------------------------------------------------------------
Warmup ==
  \/ /\ phase = "warmup"
     /\ \E now \in Starts, runs \in [Symbols -> Runs], n \in WindowLengths : WarmupReply(now, runs, n)
  \/ WarmupError

Check(s) == DropSeen(s) \/ PassContinuous(s) \/ JudgeGap(s)

HistoryReplies ==
  \/ BackfillError
  \/ phase = "fetching" /\ \E got \in SUBSET Starts : BackfillReply(got)

Process ==
  \/ \E c \in batch, ok \in SUBSET {current}, raised \in BOOLEAN : Replay(c, ok, raised)
  \/ EndReplay
  \/ \E ok \in SUBSET event.symbols, raised \in BOOLEAN : ProcessLive(ok, raised)

Next ==
  \/ Warmup
  \/ \E e \in Events : Receive(e)
  \/ StreamEnds
  \/ \E s \in Symbols : Check(s)
  \/ HistoryReplies
  \/ Process

Spec == Init /\ [][Next]_vars

(***************************************************************************)
(* The driver is one task that runs to its next await, and history.fetch   *)
(* returns or raises after a bounded number of attempts.  Neither the      *)
(* arrival of candles nor the end of the stream is assumed.                *)
(***************************************************************************)
Fairness ==
  /\ WF_vars(\E s \in Symbols : Check(s))
  /\ WF_vars(HistoryReplies)
  /\ WF_vars(Process)

FairSpec == Spec /\ Fairness

-----------------------------------------------------------------------------
(* Properties.                                                             *)

(***************************************************************************)
(* Types, and how the event in hand, the symbols still to be judged and    *)
(* the back-fill in progress fit together.                                 *)
(***************************************************************************)
TypeOK ==
  /\ phase \in Phases
  /\ anchor \in [Symbols -> Starts \cup {None}]
  /\ event \in Events \cup {NoEvent}
  /\ todo \in SUBSET event.symbols
  /\ current \in todo \cup {NoSymbol}
  /\ batch \in SUBSET Starts
  /\ fatal \in BOOLEAN
  /\ fed \in [Symbols -> [Starts -> Nat]]
  /\ decided \in [Symbols -> [Starts -> Nat]]
  /\ lost \in SUBSET (Symbols \X Starts)

(***************************************************************************)
(* However deliveries repeat, back-fills overlap live candles and          *)
(* processing fails half-way, an indicator never sees a candle twice and   *)
(* no candle is decided on twice.                                          *)
(***************************************************************************)
AtMostOnce ==
  \A s \in Symbols, c \in Starts : fed[s][c] <= 1 /\ decided[s][c] <= 1

(***************************************************************************)
(* With a history to ask, the candles a symbol consumed leave no hole: the *)
(* one after each, up to the anchor, was fed too or raised.  An indicator  *)
(* therefore differs from a backtest only by candles whose failure was     *)
(* reported.                                                               *)
(***************************************************************************)
NoHole ==
  HasHistory =>
    \A s \in Symbols, c \in Starts :
      Consumed(s, c) /\ c < anchor[s] => /\ c + Interval \in Starts
                                         /\ Consumed(s, c + Interval)

(***************************************************************************)
(* A step that decides on a candle decides on the one the stream has just  *)
(* delivered, with every gap before it filled: it finds the indicators of  *)
(* every symbol of the event complete up to the candle before, and feeds   *)
(* them this candle in the same step.  A candle replayed from history, or  *)
(* taken before, is never decided on (_backfill_gap, decide=False).        *)
(***************************************************************************)
DecidesOnNewest ==
  [][\A s \in Symbols, c \in Starts :
       decided'[s][c] # decided[s][c] =>
         /\ s \in event.symbols /\ c = event.start
         /\ anchor[s] < c
         /\ (HasHistory /\ anchor[s] # None) => c = anchor[s] + Interval
         /\ fed'[s][c] = fed[s][c] + 1]_vars

\* The engine implements the abstract feed: the anchor is the cursor.
Feed == INSTANCE CandleFeed WITH
          cursor <- anchor,
          used <- {p \in Symbols \X Starts : fed[p[1]][p[2]] > 0}
ImplementsFeed == Feed!Spec

(***************************************************************************)
(* An event that was received is done with: processed, dropped, given up   *)
(* on after an exception, or the stream ends for it.                       *)
(***************************************************************************)
EventSettled == phase = "checking" ~> phase \in Ended \cup {"waiting"}

=============================================================================

---------------------------- MODULE LiveRecorder ---------------------------
(***************************************************************************)
(* What a dry run leaves on disk, and how it resumes: core/recorder/live.py *)
(* LiveRecorder over core/result/writer.py, as the engine drives it.       *)
(*                                                                         *)
(* Three kinds of files.  The run's JSON holds the account (a dry run has  *)
(* no other copy of it) and the shard index, and is rewritten at the end   *)
(* of every event.  The shards are rewritten every FlushEvery rows and at  *)
(* every fill.  The trade log is only appended to.  The process may die    *)
(* between any two writes, also in the middle of an append, and is started *)
(* again, perhaps with other settings; a run started with other settings   *)
(* gets files of its own.                                                  *)
(*                                                                         *)
(* The account is the set of the fills applied to it.                      *)
(***************************************************************************)
EXTENDS ShardWriter, FiniteSets

CONSTANTS
  Symbols,
  Configs,       \* the settings a run may be started with
  FlushEvery,    \* shard_flush_every
  MaxRows,       \* bound: rows recorded
  MaxFills,      \* bound: fills
  MaxRestarts    \* bound: restarts of the process

ASSUME FlushAssumption == FlushEvery \in Nat \ {0}
ASSUME RunAssumption == MaxRestarts \in Nat /\ Runs = 0..MaxRestarts

VARIABLES
  up,          \* the process runs
  config,      \* with these settings
  pc,          \* where the recorder is between two writes
  inEvent,     \* an event has been recorded and has not ended
  closed,      \* _closed
  account,     \* _status: the fills applied to it
  sinceFlush,  \* _candles_since_shard_flush
  saved,       \* disk: per run, its JSON, or NotSaved
  log,         \* disk: per run, the trades that can be read from its log,
               \* and whether the log ends without a newline
  restarts,    \* how often the process was started again
  clock,       \* per symbol, the month of its last candle
  rows,        \* history: the run, settings and month of every recorded row
  fills,       \* history: how many fills there were
  born,        \* history: how many rows there were when the process started
  skipped,     \* history: events of this process, since every row was safe,
               \* whose end_event was not reached
  written,     \* history: the rows that have been safe on disk
  resumed,     \* history: the month this process took up from its shard
  cutShort     \* history: per run, the months a process took up and did not
               \* live to name in the JSON again

vars == <<writer, up, config, pc, inEvent, closed, account, sinceFlush, saved,
          log, restarts, clock, rows, fills, born, skipped, written, resumed, cutShort>>
losses == <<resumed, cutShort>>

NotSaved == [config |-> "none"]
Row == [run : Runs, config : Configs, month : Months]

TypeOK ==
  /\ run \in Runs
  /\ month \in Months \cup {NoMonth}
  /\ buffer \subseteq 1..MaxRows
  /\ index \in Seq(Months) /\ IsInjective(index)
  /\ files \in [Runs -> [Months -> SUBSET (1..MaxRows)]]
  /\ up \in BOOLEAN /\ inEvent \in BOOLEAN /\ closed \in BOOLEAN
  /\ config \in Configs
  /\ pc \in {"free", "append", "shard", "json"}
  /\ account \subseteq 1..fills
  /\ sinceFlush \in 0..MaxRows
  /\ \A r \in Runs : saved[r] = NotSaved \/
       /\ saved[r].config \in Configs
       /\ saved[r].account \subseteq 1..fills
       /\ saved[r].shards \in Seq(Months)
  /\ log \in [Runs -> [trades : SUBSET (1..MaxFills), torn : BOOLEAN]]
  /\ restarts \in 0..MaxRestarts
  /\ clock \in [Symbols -> Months]
  /\ rows \in Seq(Row) /\ Len(rows) <= MaxRows
  /\ fills \in 0..MaxFills
  /\ born \in 0..Len(rows)
  /\ skipped \in 0..MaxRows
  /\ written \subseteq 1..Len(rows)
  /\ resumed \in Months \cup {NoMonth}
  /\ cutShort \subseteq Runs \X Months

(* A row is safe when a file holds it that the run's JSON names. *)
Safe(r) == IF saved[r] = NotSaved THEN {}
           ELSE UNION {files[r][m] : m \in ToSet(saved[r].shards)}

(* The first process of the run: no JSON yet. *)
Init ==
  /\ run = 0 /\ WriterInit
  /\ up = TRUE /\ config \in Configs
  /\ pc = "free" /\ inEvent = FALSE /\ closed = FALSE
  /\ account = {} /\ sinceFlush = 0
  /\ saved = [r \in Runs |-> NotSaved]
  /\ log = [r \in Runs |-> [trades |-> {}, torn |-> FALSE]]
  /\ restarts = 0
  /\ clock = [s \in Symbols |-> 1]
  /\ rows = <<>> /\ fills = 0 /\ born = 0 /\ skipped = 0 /\ written = {}
  /\ resumed = NoMonth /\ cutShort = {}

---------------------------------------------------------------------------
(* record_event: the engine passes a candle of s, which closed in month m. *)
(* The candles of one symbol come in order; those of two symbols need not: *)
(* the engine back-fills a late symbol after it has seen the other.        *)
RecordEvent(s, m) ==
  /\ up /\ pc = "free" /\ ~inEvent /\ ~closed
  /\ Len(rows) < MaxRows
  /\ m >= clock[s]
  /\ clock' = [clock EXCEPT ![s] = m]
  /\ rows' = Append(rows, [run |-> run, config |-> config, month |-> m])
  /\ Add(Len(rows'), m)
  /\ sinceFlush' = sinceFlush + 1
  /\ inEvent' = TRUE
  /\ UNCHANGED <<restarts, run, up, config, pc, closed, account, saved, log, fills,
                 born, skipped, losses>>
  /\ written' = written \cup Safe(run)'

(* An action of the event raises: its end_event is skipped. *)
Raise ==
  /\ up /\ pc = "free" /\ inEvent
  /\ inEvent' = FALSE
  /\ skipped' = skipped + 1
  /\ UNCHANGED <<restarts, writer, up, config, pc, closed, account, sinceFlush, saved,
                 log, clock, rows, fills, born, written, losses>>

(* end_event, up to the first write of flush: the JSON is rewritten every  *)
(* time, the shard when FlushEvery rows are not in it yet.                 *)
EndEventLate ==   \* a faulty variant: one row too late
  /\ up /\ pc = "free" /\ inEvent
  /\ inEvent' = FALSE
  /\ pc' = IF sinceFlush > FlushEvery THEN "shard" ELSE "json"
  /\ UNCHANGED <<restarts, writer, up, config, closed, account, sinceFlush, saved, log,
                 clock, rows, fills, born, skipped, written, losses>>
EndEvent ==
  /\ up /\ pc = "free" /\ inEvent
  /\ inEvent' = FALSE
  /\ pc' = IF sinceFlush >= FlushEvery THEN "shard" ELSE "json"
  /\ UNCHANGED <<restarts, writer, up, config, closed, account, sinceFlush, saved, log,
                 clock, rows, fills, born, skipped, written, losses>>

(* A fill, inside an event or between two: the executor applies it to the  *)
(* account and calls record_trade.                                         *)
ApplyFill ==
  /\ up /\ pc = "free"
  /\ fills < MaxFills
  /\ fills' = fills + 1
  /\ account' = account \cup {fills'}
  /\ pc' = "append"
  /\ UNCHANGED <<restarts, writer, up, config, inEvent, closed, sinceFlush, saved, log,
                 clock, rows, born, skipped, written, losses>>

(* _append_trades: behind a torn line the new one cannot be read either. *)
AppendTrade ==
  /\ up /\ pc = "append" /\ pc' = "shard"
  /\ log' = [log EXCEPT ![run] =
       [trades |-> IF @.torn THEN @.trades ELSE @.trades \cup {fills},
        torn |-> FALSE]]
  /\ UNCHANGED <<restarts, writer, up, config, inEvent, closed, account, sinceFlush,
                 saved, clock, rows, fills, born, skipped, written, losses>>

(* flush, the shard. *)
WriteShard ==
  /\ up /\ pc = "shard" /\ pc' = "json"
  /\ Checkpoint
  /\ sinceFlush' = 0
  /\ UNCHANGED <<restarts, run, month, buffer, up, config, inEvent, closed, account,
                 saved, log, clock, rows, fills, born, skipped, losses>>
  /\ written' = written \cup Safe(run)'

(* flush, the JSON: account and shard index as they are now. *)
WriteJson ==
  /\ up /\ pc = "json" /\ pc' = "free"
  /\ saved' = [saved EXCEPT ![run] =
       [config |-> config, account |-> account, shards |-> index]]
  /\ skipped' = IF sinceFlush = 0 THEN 0 ELSE skipped
  /\ UNCHANGED <<restarts, writer, up, config, inEvent, closed, account, sinceFlush, log,
                 clock, rows, fills, born, losses>>
  /\ written' = written \cup Safe(run)'

(* close, once: a last flush of both.  Fills may still come. *)
Close ==
  /\ up /\ pc = "free" /\ ~inEvent /\ ~closed
  /\ closed' = TRUE /\ pc' = "shard"
  /\ UNCHANGED <<restarts, writer, up, config, inEvent, account, sinceFlush, saved, log,
                 clock, rows, fills, born, skipped, written, losses>>

---------------------------------------------------------------------------
(* The process ends, killed or by itself; what was in memory is gone.  The *)
(* month it took up from its last shard left the index meanwhile: a JSON   *)
(* written before the next checkpoint does not name it.                    *)
Named(r) == IF saved[r] = NotSaved THEN {} ELSE ToSet(saved[r].shards)
Die ==
  /\ up' = FALSE
  /\ cutShort' = cutShort \cup ({<<run, m>> : m \in {resumed} \ (Named(run) \cup {NoMonth})})
  /\ UNCHANGED resumed

Exit ==
  /\ up /\ Die
  /\ pc' = "free" /\ inEvent' = FALSE
  /\ UNCHANGED <<restarts, writer, config, closed, account, sinceFlush, saved, log,
                 clock, rows, fills, born, skipped, written>>

(* It dies while it appends: the line may lack more than its newline. *)
DieInAppend ==
  /\ up /\ pc = "append" /\ Die
  /\ \E readable \in SUBSET {fills} :
       log' = [log EXCEPT ![run] =
         [trades |-> IF @.torn THEN @.trades ELSE @.trades \cup readable,
          torn |-> TRUE]]
  /\ pc' = "free" /\ inEvent' = FALSE
  /\ UNCHANGED <<restarts, writer, config, closed, account, sinceFlush, saved, clock,
                 rows, fills, born, skipped, written>>

(* _is_compatible: the JSON of the run was saved with these settings. *)
AnyCompatible(doc, c) == doc # NotSaved   \* a faulty variant
Compatible(doc, c) == doc.config = c

(* _repair_trades_tail: a line without a newline gets one. *)
TailLeft(lines) == lines      \* a faulty variant: it does not
TailRepaired(lines) == [lines EXCEPT !.torn = FALSE]

(* _resume: go on with the run; the trader restores the account. *)
GoOn(doc) ==
  /\ run' = 0 /\ ResumeWriter(doc.shards)
  /\ account' = doc.account
  /\ resumed' = IF doc.shards = <<>> THEN NoMonth ELSE Last(doc.shards)

(* Begin the run r; a dry run's account starts afresh. *)
Begin(r) == run' = r /\ FreshWriter /\ account' = {} /\ resumed' = NoMonth

(* A process starts with settings c: it goes on with the run of that name  *)
(* if its JSON is compatible, begins it if there is none, and else begins  *)
(* a run with an id of its own.                                            *)
Restart(c) ==
  /\ ~up /\ restarts < MaxRestarts
  /\ up' = TRUE /\ config' = c
  /\ restarts' = restarts + 1
  /\ \/ saved[0] = NotSaved /\ Begin(0)
     \/ saved[0] # NotSaved /\ Compatible(saved[0], c) /\ GoOn(saved[0])
     \/ saved[0] # NotSaved /\ ~Compatible(saved[0], c) /\ Begin(restarts')
  /\ log' = [log EXCEPT ![run'] = TailRepaired(@)]
  /\ closed' = FALSE /\ sinceFlush' = 0
  /\ born' = Len(rows) /\ skipped' = 0
  /\ UNCHANGED <<files, pc, inEvent, saved, clock, rows, fills, written, cutShort>>

---------------------------------------------------------------------------
Next ==
  \/ \E s \in Symbols, m \in Months : RecordEvent(s, m)
  \/ Raise
  \/ EndEvent
  \/ ApplyFill
  \/ AppendTrade
  \/ WriteShard
  \/ WriteJson
  \/ Close
  \/ Exit
  \/ DieInAppend
  \/ \E c \in Configs : Restart(c)

Spec == Init /\ [][Next]_vars

---------------------------------------------------------------------------
Recorded(r) == {n \in 1..Len(rows) : rows[n].run = r}

(* What there is of a run: what its process holds, or its safe rows. *)
Remains(r) == IF up /\ r = run THEN Held ELSE Safe(r)

(* No row is lost that was once safe on disk: the promise of live.py, that *)
(* a death in the middle leaves the previous state whole.                  *)
NoRowLost == \A n \in written : n \in Remains(rows[n].run)

(* It holds of every run, whatever process writes now, with which settings *)
(* and after how many deaths, but for two kinds of months: those that a    *)
(* process took up from its last shard and did not live to name in the     *)
(* JSON again, and those that the run came back to after another month.    *)
(* A row of any other month is in a file the run's JSON names, or held by  *)
(* the process, whose next JSON does not forget it (ShardWriter.resume).   *)
Revisited(r, m) ==
  \E i, j, k \in Recorded(r) : /\ i < j /\ j < k
                              /\ rows[i].month = m /\ rows[j].month # m
                              /\ rows[k].month = m
RowsSurvive ==
  \A n \in written :
    LET r == rows[n].run
        m == rows[n].month
    IN n \in Remains(r) \/ <<r, m>> \in cutShort \/ Revisited(r, m)

(* A process that dies takes at most FlushEvery rows with it, and those of *)
(* events that raised before their end_event (the periodic checkpoint of   *)
(* flush, and the flush of a month that rolls over).  Rows of a month the  *)
(* run came back to are left out: a roll-over has written them to a file   *)
(* that the JSON did not name yet when it was written anew.                *)
LossBounded ==
  up => Cardinality({n \in (born + 1 .. Len(rows)) \ written :
                       ~Revisited(rows[n].run, rows[n].month)})
          <= FlushEvery + skipped

(* An account that was saved contains only fills that can be read from the *)
(* log of the run: the log is appended to before the JSON is written, and  *)
(* a torn tail is repaired before the next append.                         *)
SavedIsLogged ==
  \A r \in Runs : saved[r] # NotSaved => saved[r].account \subseteq log[r].trades

(* The safe rows of a run were all recorded with the settings its JSON     *)
(* states (_is_compatible).                                                *)
SettingsNeverMix ==
  \A r \in Runs : \A n \in Safe(r) : rows[n].config = saved[r].config

============================================================================

--------------------------- MODULE LiveRunProofs ---------------------------
(***************************************************************************)
(* Proofs about a live run: what LiveRecorder leaves of it on disk, and    *)
(* what EventLoops decides on while it runs, beside the backtest.          *)
(*                                                                         *)
(* LiveRecorder: for any settings, symbols, months and bounds and wherever *)
(* the process dies, what a run's JSON says of its account and of its      *)
(* settings is borne out by the other files of the run, and a row that was *)
(* safe on disk stays safe, but for the months that RowsSurvive names; and *)
(* a death costs few of the rows that were not safe yet.                   *)
(*                                                                         *)
(* EventLoops: for any candles, plan of indicators and strategy a late     *)
(* event grows no position, every value the live loop reads is the one     *)
(* that is meant, warm-up is enough of a past, and the backtest decides as *)
(* the live loop does.                                                     *)
(***************************************************************************)
EXTENDS LiveRecorder, EventLoops, SequenceTheorems, FiniteSetTheorems, WellFoundedInduction, TLAPS

-----------------------------------------------------------------------------
(* The files of a run.                                                     *)

RowNumbers == 1..Len(rows)
Document == [config : Configs, account : SUBSET Nat, shards : Seq(Months)]

Memory ==
  /\ run \in Runs /\ restarts \in Runs
  /\ up \in BOOLEAN /\ config \in Configs
  /\ month \in Months \cup {NoMonth}
  /\ buffer \subseteq RowNumbers /\ (buffer # {} => month \in Months)
  /\ index \in Seq(Months)
  /\ fills \in Nat /\ account \subseteq Nat
  /\ rows \in Seq(Row)

Disk ==
  /\ files \in [Runs -> [Months -> SUBSET RowNumbers]]
  /\ saved \in [Runs -> Document \cup {NotSaved}]
  /\ log \in [Runs -> [trades : SUBSET Nat, torn : BOOLEAN]]

(* A run whose number no process has had yet has no JSON.                  *)
RunBegun == run <= restarts
RunsToCome == RunBegun /\ \A r \in Runs : r > restarts => saved[r] = NotSaved

(* What the process holds, and the JSON of its run, are of its settings;   *)
(* the files that a JSON names are of the settings it states.              *)
Mine(S) == \A n \in S : rows[n].config = config
SettingsInv ==
  /\ up => /\ Mine(buffer)
           /\ \A m \in ToSet(index) : Mine(files[run][m])
           /\ saved[run] # NotSaved => saved[run].config = config
  /\ \A r \in Runs : saved[r] # NotSaved =>
       \A m \in ToSet(saved[r].shards) : \A n \in files[r][m] :
         rows[n].config = saved[r].config

(* The account is in the log, but for the fill that is being appended, and *)
(* a process never writes behind a torn line.                              *)
LogInv ==
  /\ up => /\ ~log[run].torn
           /\ \A f \in account : f \in log[run].trades \/ (pc = "append" /\ f = fills)
  /\ SavedIsLogged

(***************************************************************************)
(* The inductive invariant.                                                *)
(***************************************************************************)
RecorderInv == Memory /\ Disk /\ RunsToCome /\ SettingsInv /\ LogInv

-----------------------------------------------------------------------------
LEMMA Constants ==
  /\ MaxRestarts \in Nat /\ Runs = 0..MaxRestarts /\ 0 \in Runs
  /\ MaxMonth \in Nat /\ Months = 1..MaxMonth /\ NoMonth \notin Months
BY RunAssumption, MonthAssumption DEF Months, NoMonth

LEMMA InitRecorder == Init => RecorderInv
<1> SUFFICES ASSUME Init PROVE RecorderInv
  OBVIOUS
<1>1. /\ run = 0 /\ restarts = 0 /\ up = TRUE /\ config \in Configs
      /\ month = NoMonth /\ buffer = {} /\ index = <<>>
      /\ files = [r \in Runs |-> [m \in Months |-> {}]]
      /\ account = {} /\ fills = 0 /\ rows = <<>>
      /\ saved = [r \in Runs |-> NotSaved]
      /\ log = [r \in Runs |-> [trades |-> {}, torn |-> FALSE]]
  BY DEF Init, WriterInit
<1>2. Memory
  BY <1>1, Constants DEF Memory
<1>3. Disk
  <2>1. files \in [Runs -> [Months -> SUBSET RowNumbers]]
    BY <1>1
  <2>2. saved \in [Runs -> Document \cup {NotSaved}]
    BY <1>1
  <2>3. log \in [Runs -> [trades : SUBSET Nat, torn : BOOLEAN]]
    BY <1>1
  <2> QED
    BY <2>1, <2>2, <2>3 DEF Disk
<1>4. RunsToCome
  BY <1>1 DEF RunsToCome, RunBegun
<1>5. SettingsInv
  <2>1. ToSet(index) = {}
    BY <1>1 DEF ToSet
  <2>2. \A r \in Runs : saved[r] = NotSaved
    BY <1>1
  <2> QED
    BY <1>1, <2>1, <2>2, Constants DEF SettingsInv, Mine
<1>6. LogInv
  BY <1>1, Constants DEF LogInv, SavedIsLogged
<1> QED
  BY <1>2, <1>3, <1>4, <1>5, <1>6 DEF RecorderInv

-----------------------------------------------------------------------------
(* The shards. *)

(***************************************************************************)
(* A checkpoint changes no file but that of the buffer's month, which then *)
(* holds the buffer, and indexes no other month.                           *)
(***************************************************************************)
LEMMA CheckpointEffect ==
  ASSUME Memory, Disk, Checkpoint
  PROVE  /\ index' \in Seq(Months)
         /\ files' \in [Runs -> [Months -> SUBSET RowNumbers]]
         /\ \A r \in Runs, m \in Months :
              files'[r][m] = files[r][m] \/ (r = run /\ files'[r][m] = buffer)
         /\ \A m \in ToSet(index') : m \in ToSet(index) \/ files'[run][m] = buffer
<1>1. /\ run \in Runs /\ index \in Seq(Months) /\ buffer \subseteq RowNumbers
      /\ files \in [Runs -> [Months -> SUBSET RowNumbers]]
  BY DEF Memory, Disk
<1>2. CASE buffer = {}
  BY <1>1, <1>2 DEF Checkpoint
<1>3. CASE buffer # {}
  <2>1. /\ month \in Months /\ index' = Committed(month)
        /\ files' = [files EXCEPT ![run][month] = buffer]
    BY <1>3 DEF Checkpoint, Memory
  <2>2. files' \in [Runs -> [Months -> SUBSET RowNumbers]]
    BY <1>1, <2>1
  <2>3. \A r \in Runs, m \in Months :
          files'[r][m] = IF r = run /\ m = month THEN buffer ELSE files[r][m]
    BY <1>1, <2>1
  <2>4. /\ index' \in Seq(Months)
        /\ \A m \in ToSet(index') : m \in ToSet(index) \/ m = month
    BY <1>1, <2>1 DEF Committed, ToSet
  <2> QED
    BY <1>1, <2>1, <2>2, <2>3, <2>4
<1> QED
  BY <1>2, <1>3

(***************************************************************************)
(* A checkpoint writes rows of the process's settings into files of its    *)
(* own run, whose JSON, if there is one, states these settings.            *)
(***************************************************************************)
LEMMA CheckpointKeepsSettings ==
  ASSUME Memory, Disk, SettingsInv, up, Checkpoint
  PROVE  /\ \A m \in ToSet(index') : Mine(files'[run][m])
         /\ \A r \in Runs : saved[r] # NotSaved =>
              \A m \in ToSet(saved[r].shards) : \A n \in files'[r][m] :
                rows[n].config = saved[r].config
<1>1. /\ run \in Runs /\ index' \in Seq(Months) /\ index \in Seq(Months)
      /\ \A r \in Runs, m \in Months :
           files'[r][m] = files[r][m] \/ (r = run /\ files'[r][m] = buffer)
      /\ \A m \in ToSet(index') : m \in ToSet(index) \/ files'[run][m] = buffer
  BY CheckpointEffect DEF Memory
<1>2. Mine(buffer) /\ \A m \in ToSet(index) : Mine(files[run][m])
  BY DEF SettingsInv
<1>3. ASSUME NEW m \in ToSet(index') PROVE Mine(files'[run][m])
  <2>1. m \in Months
    BY <1>1 DEF ToSet
  <2> QED
    BY <1>1, <1>2, <2>1
<1>4. ASSUME NEW r \in Runs, saved[r] # NotSaved, NEW m \in ToSet(saved[r].shards),
             NEW n \in files'[r][m]
      PROVE  rows[n].config = saved[r].config
  <2>1. m \in Months
    BY <1>4 DEF Disk, Document, ToSet
  <2>2. CASE files'[r][m] = files[r][m]
    BY <1>4, <2>2 DEF SettingsInv
  <2>3. CASE r = run /\ files'[r][m] = buffer
    BY <1>2, <1>4, <2>3 DEF SettingsInv, Mine
  <2> QED
    BY <1>1, <2>1, <2>2, <2>3
<1> QED
  BY <1>3, <1>4

(***************************************************************************)
(* record_event: the new row goes to the buffer, perhaps after the         *)
(* checkpoint of another month.                                            *)
(***************************************************************************)
LEMMA RecordEventKeeps ==
  ASSUME RecorderInv, NEW s \in Symbols, NEW m \in Months, RecordEvent(s, m)
  PROVE  RecorderInv'
<1>0. Memory /\ Disk /\ RunsToCome /\ SettingsInv /\ LogInv
  BY DEF RecorderInv
<1>1. /\ up = TRUE /\ rows' = Append(rows, [run |-> run, config |-> config, month |-> m])
      /\ Add(Len(rows'), m) /\ up' = up
      /\ UNCHANGED <<run, restarts, config, account, fills, saved, log, pc>>
  BY <1>0 DEF RecordEvent, Memory
<1> DEFINE new == Len(rows) + 1
<1>2. /\ rows' \in Seq(Row) /\ Len(rows') = new /\ new \in Nat
      /\ RowNumbers \subseteq RowNumbers' /\ new \in RowNumbers'
      /\ \A n \in RowNumbers : rows'[n] = rows[n]
      /\ rows'[new].config = config
  <2>1. rows \in Seq(Row) /\ [run |-> run, config |-> config, month |-> m] \in Row
    BY <1>0 DEF Memory, Row
  <2>2. rows' \in Seq(Row) /\ Len(rows') = Len(rows) + 1 /\ Len(rows) \in Nat
    BY <1>1, <2>1
  <2>3. rows'[new] = [run |-> run, config |-> config, month |-> m]
    BY <1>1, <2>1
  <2>4. \A n \in 1..Len(rows) : rows'[n] = rows[n]
    BY <1>1, <2>1
  <2> QED
    BY <2>2, <2>3, <2>4 DEF RowNumbers
<1> HIDE DEF new
<1>3. /\ index' \in Seq(Months)
      /\ files' \in [Runs -> [Months -> SUBSET RowNumbers]]
      /\ month' = m /\ new \in buffer' /\ buffer' \subseteq buffer \cup {new}
      /\ \A k \in ToSet(index') : Mine(files'[run][k])
      /\ \A r \in Runs : saved[r] # NotSaved =>
           \A k \in ToSet(saved[r].shards) : \A n \in files'[r][k] :
             rows[n].config = saved[r].config
  <2>1. CASE Checkpoint /\ month' = m /\ buffer' = {new}
    BY <1>0, <1>1, <2>1, CheckpointEffect, CheckpointKeepsSettings
  <2>2. CASE m = month /\ buffer' = buffer \cup {new} /\ UNCHANGED <<month, index, files>>
    BY <1>0, <1>1, <2>2 DEF Memory, Disk, SettingsInv
  <2> QED
    BY <1>1, <1>2, <2>1, <2>2 DEF Add
<1>4. Memory'
  BY <1>0, <1>1, <1>2, <1>3 DEF Memory
<1>5. Disk'
  <2>1. files' \in [Runs -> [Months -> SUBSET RowNumbers']]
    BY <1>2, <1>3
  <2> QED
    BY <1>0, <1>1, <2>1 DEF Disk
<1>6. RunsToCome'
  BY <1>0, <1>1 DEF RunsToCome, RunBegun
<1>7. SettingsInv'
  <2>1. \A n \in buffer' : rows'[n].config = config'
    BY <1>0, <1>1, <1>2, <1>3 DEF SettingsInv, Mine, Memory
  <2>2. ASSUME NEW k \in ToSet(index') PROVE \A n \in files'[run'][k] : rows'[n].config = config'
    <3>1. k \in Months
      BY <1>3 DEF ToSet
    <3>2. files'[run][k] \subseteq RowNumbers
      BY <1>0, <1>3, <3>1 DEF Memory
    <3>3. \A n \in files'[run][k] : n \in RowNumbers /\ rows[n].config = config
      BY <1>3, <3>2 DEF Mine
    <3> QED
      BY <1>1, <1>2, <3>3
  <2>3. ASSUME NEW r \in Runs, saved[r] # NotSaved, NEW k \in ToSet(saved[r].shards),
               NEW n \in files'[r][k]
        PROVE  rows'[n].config = saved[r].config
    <3>1. k \in Months
      BY <1>0, <2>3 DEF Disk, Document, ToSet
    <3>2. n \in RowNumbers
      BY <1>3, <3>1
    <3> QED
      BY <1>2, <1>3, <2>3, <3>2
  <2>4. saved'[run'] # NotSaved => saved'[run'].config = config'
    BY <1>0, <1>1 DEF SettingsInv
  <2> QED
    BY <1>1, <2>1, <2>2, <2>3, <2>4 DEF SettingsInv, Mine
<1>8. LogInv'
  BY <1>0, <1>1 DEF LogInv, SavedIsLogged
<1> QED
  BY <1>4, <1>5, <1>6, <1>7, <1>8 DEF RecorderInv

(***************************************************************************)
(* flush, the shard.                                                       *)
(***************************************************************************)
LEMMA WriteShardKeeps ==
  ASSUME RecorderInv, WriteShard
  PROVE  RecorderInv'
<1>0. Memory /\ Disk /\ RunsToCome /\ SettingsInv /\ LogInv /\ up = TRUE
  BY DEF RecorderInv, WriteShard, Memory
<1>1. /\ Checkpoint /\ pc = "shard" /\ pc' = "json"
      /\ UNCHANGED <<run, restarts, up, config, month, buffer, account, fills, rows, saved, log>>
  BY DEF WriteShard
<1>2. /\ index' \in Seq(Months)
      /\ files' \in [Runs -> [Months -> SUBSET RowNumbers]]
      /\ \A k \in ToSet(index') : Mine(files'[run][k])
      /\ \A r \in Runs : saved[r] # NotSaved =>
           \A k \in ToSet(saved[r].shards) : \A n \in files'[r][k] :
             rows[n].config = saved[r].config
  BY <1>0, <1>1, CheckpointEffect, CheckpointKeepsSettings
<1>3. Memory'
  BY <1>0, <1>1, <1>2 DEF Memory, RowNumbers
<1>4. Disk'
  BY <1>0, <1>1, <1>2 DEF Disk, RowNumbers
<1>5. RunsToCome'
  BY <1>0, <1>1 DEF RunsToCome, RunBegun
<1>6. SettingsInv'
  BY <1>0, <1>1, <1>2 DEF SettingsInv, Mine
<1>7. LogInv'
  BY <1>0, <1>1 DEF LogInv, SavedIsLogged
<1> QED
  BY <1>3, <1>4, <1>5, <1>6, <1>7 DEF RecorderInv

(***************************************************************************)
(* flush, the JSON: no fill is being appended now, so that the account it  *)
(* saves is in the log, and the index names files of the settings.         *)
(***************************************************************************)
LEMMA WriteJsonKeeps ==
  ASSUME RecorderInv, WriteJson
  PROVE  RecorderInv'
<1>0. Memory /\ Disk /\ RunsToCome /\ SettingsInv /\ LogInv /\ up = TRUE
  BY DEF RecorderInv, WriteJson, Memory
<1> DEFINE doc == [config |-> config, account |-> account, shards |-> index]
<1>1. /\ pc = "json" /\ pc' = "free" /\ saved' = [saved EXCEPT ![run] = doc]
      /\ UNCHANGED <<run, restarts, up, config, month, buffer, index, files, account, fills, rows,
                     log>>
  BY DEF WriteJson, writer
<1>2. /\ doc \in Document /\ doc.config = config /\ doc.account = account /\ doc.shards = index
      /\ run \in Runs
  BY <1>0 DEF Memory, Document
<1> HIDE DEF doc
<1>3. /\ saved' \in [Runs -> Document \cup {NotSaved}]
      /\ \A r \in Runs : saved'[r] = IF r = run THEN doc ELSE saved[r]
  BY <1>0, <1>1, <1>2 DEF Disk
<1>4. Memory'
  BY <1>0, <1>1 DEF Memory, RowNumbers
<1>5. Disk'
  BY <1>0, <1>1, <1>3 DEF Disk, RowNumbers
<1>6. RunsToCome'
  <2>1. ASSUME NEW r \in Runs, r > restarts PROVE saved'[r] = NotSaved
    <3>1. r # run
      BY <1>0, <1>2, <2>1, Constants DEF RunsToCome, RunBegun, Memory
    <3> QED
      BY <1>0, <1>3, <2>1, <3>1 DEF RunsToCome, RunBegun
  <2> QED
    BY <1>0, <1>1, <2>1 DEF RunsToCome, RunBegun
<1>7. SettingsInv'
  <2>1. ASSUME NEW r \in Runs, saved'[r] # NotSaved, NEW m \in ToSet(saved'[r].shards),
               NEW n \in files[r][m]
        PROVE  rows[n].config = saved'[r].config
    <3>1. CASE r = run
      BY <1>0, <1>2, <1>3, <2>1, <3>1 DEF SettingsInv, Mine
    <3>2. CASE r # run
      BY <1>0, <1>3, <2>1, <3>2 DEF SettingsInv
    <3> QED
      BY <3>1, <3>2
  <2>2. saved'[run].config = config
    BY <1>2, <1>3
  <2> QED
    BY <1>0, <1>1, <2>1, <2>2 DEF SettingsInv, Mine
<1>8. LogInv'
  <2>1. \A f \in account : f \in log[run].trades
    BY <1>0, <1>1 DEF LogInv
  <2>2. SavedIsLogged'
    BY <1>0, <1>1, <1>2, <1>3, <2>1 DEF LogInv, SavedIsLogged
  <2> QED
    BY <1>0, <1>1, <2>1, <2>2 DEF LogInv
<1> QED
  BY <1>4, <1>5, <1>6, <1>7, <1>8 DEF RecorderInv

(***************************************************************************)
(* A step that leaves shards, JSONs and settings alone.                    *)
(***************************************************************************)
LEMMA LogStep ==
  ASSUME RecorderInv, up' \in {up, FALSE}, fills' \in Nat, account' \subseteq Nat,
         log' \in [Runs -> [trades : SUBSET Nat, torn : BOOLEAN]], LogInv',
         UNCHANGED <<writer, restarts, config, rows, saved>>
  PROVE  RecorderInv'
<1>0. Memory /\ Disk /\ RunsToCome /\ SettingsInv
  BY DEF RecorderInv
<1>1. UNCHANGED <<run, month, buffer, index, files, restarts, config, rows, saved>>
  BY DEF writer
<1>2. Memory'
  BY <1>0, <1>1 DEF Memory, RowNumbers
<1>3. Disk'
  BY <1>0, <1>1 DEF Disk, RowNumbers
<1>4. RunsToCome'
  BY <1>0, <1>1 DEF RunsToCome, RunBegun
<1>5. SettingsInv'
  <2>1. CASE up' = FALSE
    BY <1>0, <1>1, <2>1 DEF SettingsInv
  <2>2. CASE up' = up
    BY <1>0, <1>1, <2>2 DEF SettingsInv, Mine
  <2> QED
    BY <2>1, <2>2
<1> QED
  BY <1>2, <1>3, <1>4, <1>5 DEF RecorderInv

(***************************************************************************)
(* A fill and its line in the log, whole or torn; and the steps that only  *)
(* move the recorder.                                                      *)
(***************************************************************************)
LEMMA LogStepsKeep ==
  ASSUME RecorderInv,
         Raise \/ EndEvent \/ Close \/ Exit \/ ApplyFill \/ AppendTrade \/ DieInAppend
  PROVE  RecorderInv'
<1>0. /\ Memory /\ Disk /\ LogInv /\ run \in Runs /\ fills \in Nat /\ account \subseteq Nat
      /\ log \in [Runs -> [trades : SUBSET Nat, torn : BOOLEAN]]
  BY DEF RecorderInv, Memory, Disk
<1>1. UNCHANGED <<writer, restarts, config, rows, saved>>
  BY DEF Raise, EndEvent, Close, Exit, ApplyFill, AppendTrade, DieInAppend
<1>2. CASE Raise \/ EndEvent \/ Close
  <2>1. pc = "free" /\ UNCHANGED <<up, fills, account, log>>
    BY <1>2 DEF Raise, EndEvent, Close
  <2>2. LogInv'
    BY <1>0, <1>1, <2>1 DEF LogInv, SavedIsLogged, writer
  <2> QED
    BY <1>0, <1>1, <2>1, <2>2, LogStep
<1>3. CASE Exit
  <2>1. up' = FALSE /\ UNCHANGED <<fills, account, log>>
    BY <1>3 DEF Exit, Die
  <2>2. LogInv'
    BY <1>0, <1>1, <2>1 DEF LogInv, SavedIsLogged
  <2> QED
    BY <1>0, <1>1, <2>1, <2>2, LogStep
<1>4. CASE ApplyFill
  <2>1. /\ pc = "free" /\ pc' = "append" /\ fills' = fills + 1 /\ account' = account \cup {fills'}
        /\ UNCHANGED <<up, log>>
    BY <1>4 DEF ApplyFill
  <2>2. fills' \in Nat /\ account' \subseteq Nat
    BY <1>0, <2>1
  <2>3. LogInv'
    BY <1>0, <1>1, <2>1 DEF LogInv, SavedIsLogged, writer
  <2> QED
    BY <1>0, <1>1, <2>1, <2>2, <2>3, LogStep
<1>5. CASE AppendTrade
  <2>1. /\ up /\ pc = "append" /\ pc' = "shard"
        /\ log' = [log EXCEPT ![run] =
             [trades |-> IF @.torn THEN @.trades ELSE @.trades \cup {fills}, torn |-> FALSE]]
        /\ UNCHANGED <<up, fills, account>>
    BY <1>5 DEF AppendTrade
  <2>2. /\ log' = [log EXCEPT ![run] = [trades |-> log[run].trades \cup {fills}, torn |-> FALSE]]
        /\ \A f \in account : f \in log[run].trades \cup {fills}
    BY <1>0, <2>1 DEF LogInv
  <2>3. log' \in [Runs -> [trades : SUBSET Nat, torn : BOOLEAN]]
    BY <1>0, <2>2
  <2>4. /\ ~log'[run].torn /\ log'[run].trades = log[run].trades \cup {fills}
        /\ \A r \in Runs : log[r].trades \subseteq log'[r].trades
    BY <1>0, <2>2
  <2>5. LogInv'
    BY <1>0, <1>1, <2>1, <2>2, <2>4 DEF LogInv, SavedIsLogged, writer
  <2> QED
    BY <1>0, <1>1, <2>1, <2>3, <2>5, LogStep
<1>6. CASE DieInAppend
  <2>1. /\ up' = FALSE /\ UNCHANGED <<fills, account>>
        /\ \E readable \in SUBSET {fills} :
             log' = [log EXCEPT ![run] =
               [trades |-> IF @.torn THEN @.trades ELSE @.trades \cup readable, torn |-> TRUE]]
    BY <1>6 DEF DieInAppend, Die
  <2>2. PICK more \in SUBSET Nat :
          log' = [log EXCEPT ![run] = [trades |-> log[run].trades \cup more, torn |-> TRUE]]
    <3>1. CASE log[run].torn
      <4>1. log' = [log EXCEPT ![run] = [trades |-> log[run].trades \cup {}, torn |-> TRUE]]
        BY <2>1, <3>1
      <4> QED
        BY <4>1
    <3>2. CASE ~log[run].torn
      <4>1. PICK readable \in SUBSET {fills} :
              log' = [log EXCEPT ![run] = [trades |-> log[run].trades \cup readable, torn |-> TRUE]]
        BY <2>1, <3>2
      <4> QED
        BY <1>0, <4>1
    <3> QED
      BY <3>1, <3>2
  <2>3. log' \in [Runs -> [trades : SUBSET Nat, torn : BOOLEAN]]
    BY <1>0, <2>2
  <2>4. \A r \in Runs : log[r].trades \subseteq log'[r].trades
    BY <1>0, <2>2
  <2>5. LogInv'
    BY <1>0, <1>1, <2>1, <2>4 DEF LogInv, SavedIsLogged
  <2> QED
    BY <1>0, <1>1, <2>1, <2>3, <2>5, LogStep
<1> QED
  BY <1>2, <1>3, <1>4, <1>5, <1>6

-----------------------------------------------------------------------------
(* Starting again. *)

(***************************************************************************)
(* ShardWriter.resume: buffer and index are made of months the JSON named. *)
(***************************************************************************)
LEMMA ResumeEffect ==
  ASSUME Disk, NEW shards \in Seq(Months), ResumeWriter(shards), run' \in Runs
  PROVE  /\ month' \in Months \cup {NoMonth} /\ (buffer' # {} => month' \in Months)
         /\ index' \in Seq(Months) /\ ToSet(index') \subseteq ToSet(shards)
         /\ buffer' # {} => \E m \in ToSet(shards) : buffer' = files[run'][m]
<1>1. CASE shards = <<>>
  BY <1>1 DEF ResumeWriter, FreshWriter, ToSet
<1>2. CASE shards # <<>>
  <2>1. Len(shards) \in Nat /\ Len(shards) > 0
    BY <1>2
  <2>2. Last(shards) \in Months /\ Last(shards) \in ToSet(shards)
    BY <2>1 DEF Last, ToSet
  <2>3. /\ index' = SubSeq(shards, 1, Len(shards) - 1)
        /\ buffer' = files[run'][Last(shards)]
        /\ month' = IF buffer' = {} THEN NoMonth ELSE Last(shards)
    BY <1>2 DEF ResumeWriter, Resume, Front
  <2>4. /\ index' \in Seq(Months) /\ Len(index') = Len(shards) - 1
        /\ \A i \in 1..Len(index') : index'[i] = shards[i]
    <3> DEFINE n == Len(shards) - 1
    <3>1. n \in Int /\ n >= 0 /\ \A i \in 1..n : shards[i] \in Months
      BY <2>1
    <3> HIDE DEF n
    <3>2. /\ SubSeq(shards, 1, n) \in Seq(Months) /\ Len(SubSeq(shards, 1, n)) = n
          /\ \A i \in 1..n : SubSeq(shards, 1, n)[i] = shards[i]
      BY <3>1, SubSeqProperties
    <3> QED
      BY <2>3, <3>2 DEF n
  <2>5. ToSet(index') \subseteq ToSet(shards)
    <3>1. \A i \in 1..Len(index') : i \in 1..Len(shards)
      BY <2>1, <2>4
    <3>2. DOMAIN index' = 1..Len(index') /\ DOMAIN shards = 1..Len(shards)
      BY <2>4
    <3> QED
      BY <2>4, <3>1, <3>2 DEF ToSet
  <2> QED
    BY <2>2, <2>3, <2>4, <2>5
<1> QED
  BY <1>1, <1>2

(***************************************************************************)
(* _resume or a run begun: the process goes on with a run only under the   *)
(* settings of its JSON, and begins only a run that has none.              *)
(***************************************************************************)
LEMMA RestartKeeps ==
  ASSUME RecorderInv, NEW c \in Configs, Restart(c)
  PROVE  RecorderInv'
<1>0. /\ Memory /\ Disk /\ RunsToCome /\ SettingsInv /\ LogInv
      /\ log \in [Runs -> [trades : SUBSET Nat, torn : BOOLEAN]]
  BY DEF RecorderInv, Disk
<1>1. /\ up' = TRUE /\ config' = c /\ restarts' = restarts + 1 /\ restarts < MaxRestarts
      /\ log' = [log EXCEPT ![run'] = [@ EXCEPT !.torn = FALSE]]
      /\ UNCHANGED <<files, saved, rows, fills, pc>>
  BY DEF Restart, TailRepaired
<1>2. restarts' \in Runs /\ restarts < restarts' /\ 0 \in Runs /\ 0 <= restarts'
  BY <1>0, <1>1, Constants DEF Memory
<1>3. /\ run' \in Runs /\ run' <= restarts'
      /\ account' \subseteq Nat /\ \A f \in account' : f \in log[run'].trades
      /\ month' \in Months \cup {NoMonth} /\ (buffer' # {} => month' \in Months)
      /\ index' \in Seq(Months) /\ buffer' \subseteq RowNumbers
      /\ \A n \in buffer' : rows[n].config = c
      /\ \A m \in ToSet(index') : \A n \in files[run'][m] : rows[n].config = c
      /\ saved[run'] # NotSaved => saved[run'].config = c
  <2>1. CASE \E r \in {0, restarts'} : saved[r] = NotSaved /\ Begin(r)
    <3>1. PICK r \in {0, restarts'} : saved[r] = NotSaved /\ Begin(r)
      BY <2>1
    <3>2. /\ run' = r /\ month' = NoMonth /\ buffer' = {} /\ index' = <<>> /\ account' = {}
      BY <3>1 DEF Begin, FreshWriter
    <3>3. ToSet(index') = {}
      BY <3>2 DEF ToSet
    <3>4. run' \in Runs /\ run' <= restarts' /\ saved[run'] = NotSaved
      BY <1>2, <3>1, <3>2
    <3>5. index' \in Seq(Months)
      BY <3>2
    <3> QED
      BY <3>2, <3>3, <3>4, <3>5
  <2>2. CASE saved[0] # NotSaved /\ Compatible(saved[0], c) /\ GoOn(saved[0])
    <3>1. /\ saved[0] \in Document /\ saved[0].config = c /\ run' = 0
          /\ ResumeWriter(saved[0].shards) /\ account' = saved[0].account
      BY <1>0, <1>2, <2>2 DEF Disk, Compatible, GoOn
    <3>2. saved[0].shards \in Seq(Months) /\ saved[0].account \subseteq Nat
      BY <3>1 DEF Document
    <3>3. saved[0].account \subseteq log[0].trades
      BY <1>0, <1>2, <2>2 DEF LogInv, SavedIsLogged
    <3>4. \A m \in ToSet(saved[0].shards) : \A n \in files[0][m] : rows[n].config = c
      BY <1>0, <1>2, <2>2, <3>1 DEF SettingsInv
    <3>5. /\ month' \in Months \cup {NoMonth} /\ (buffer' # {} => month' \in Months)
          /\ index' \in Seq(Months) /\ ToSet(index') \subseteq ToSet(saved[0].shards)
          /\ buffer' # {} => \E m \in ToSet(saved[0].shards) : buffer' = files[0][m]
      BY <1>0, <1>2, <3>1, <3>2, ResumeEffect
    <3>6. ASSUME NEW m \in ToSet(saved[0].shards) PROVE files[0][m] \subseteq RowNumbers
      <4>1. m \in Months
        BY <3>2 DEF ToSet
      <4> QED
        BY <1>0, <1>2, <4>1 DEF Disk
    <3> QED
      BY <1>2, <3>1, <3>2, <3>3, <3>4, <3>5, <3>6
  <2>3. saved[restarts'] = NotSaved
    BY <1>0, <1>2, Constants DEF RunsToCome, Memory
  <2> QED
    BY <2>1, <2>2, <2>3 DEF Restart
<1>4. /\ log' \in [Runs -> [trades : SUBSET Nat, torn : BOOLEAN]]
      /\ log'[run'].torn = FALSE
      /\ \A r \in Runs : log'[r].trades = log[r].trades
  BY <1>0, <1>1, <1>3
<1>5. Memory'
  BY <1>0, <1>1, <1>2, <1>3 DEF Memory, RowNumbers
<1>6. Disk'
  BY <1>0, <1>1, <1>4 DEF Disk, RowNumbers
<1>7. RunsToCome'
  <2>1. ASSUME NEW r \in Runs, r > restarts' PROVE saved[r] = NotSaved
    BY <1>0, <1>1, <2>1, Constants DEF RunsToCome, Memory
  <2> QED
    BY <1>1, <1>3, <2>1 DEF RunsToCome, RunBegun
<1>8. SettingsInv'
  BY <1>0, <1>1, <1>3 DEF SettingsInv, Mine
<1>9. LogInv'
  BY <1>0, <1>1, <1>3, <1>4 DEF LogInv, SavedIsLogged
<1> QED
  BY <1>5, <1>6, <1>7, <1>8, <1>9 DEF RecorderInv

-----------------------------------------------------------------------------
LEMMA NextRecorder == RecorderInv /\ [Next]_vars => RecorderInv'
<1> SUFFICES ASSUME RecorderInv, [Next]_vars PROVE RecorderInv'
  OBVIOUS
<1>1. CASE \E s \in Symbols, m \in Months : RecordEvent(s, m)
  BY <1>1, RecordEventKeeps
<1>2. CASE WriteShard
  BY <1>2, WriteShardKeeps
<1>3. CASE WriteJson
  BY <1>3, WriteJsonKeeps
<1>4. CASE Raise \/ EndEvent \/ Close \/ Exit \/ ApplyFill \/ AppendTrade \/ DieInAppend
  BY <1>4, LogStepsKeep
<1>5. CASE \E c \in Configs : Restart(c)
  BY <1>5, RestartKeeps
<1>6. CASE UNCHANGED vars
  <2>1. /\ UNCHANGED <<writer, up, config, pc, account, saved, log, restarts, rows, fills>>
        /\ UNCHANGED <<run, month, buffer, index, files>>
    BY <1>6 DEF vars, writer
  <2>2. /\ LogInv /\ fills \in Nat /\ account \subseteq Nat
        /\ log \in [Runs -> [trades : SUBSET Nat, torn : BOOLEAN]]
    BY DEF RecorderInv, Memory, Disk
  <2>3. LogInv'
    BY <2>1, <2>2 DEF LogInv, SavedIsLogged
  <2> QED
    BY <2>1, <2>2, <2>3, LogStep
<1> QED
  BY <1>1, <1>2, <1>3, <1>4, <1>5, <1>6 DEF Next

(***************************************************************************)
(* The inductive invariant holds in every execution, restarts included.    *)
(***************************************************************************)
THEOREM RecorderInvariant == Spec => []RecorderInv
<1>1. Init => RecorderInv
  BY InitRecorder
<1>2. RecorderInv /\ [Next]_vars => RecorderInv'
  BY NextRecorder
<1> QED
  BY <1>1, <1>2, PTL DEF Spec

(***************************************************************************)
(* A restored account can be explained: every fill in a saved account can  *)
(* be read from the log of its run, wherever a process died (record_trade, *)
(* flush and _repair_trades_tail of live.py).                              *)
(***************************************************************************)
THEOREM AccountIsLogged == Spec => []SavedIsLogged
<1>1. RecorderInv => SavedIsLogged
  BY DEF RecorderInv, LogInv
<1> QED
  BY <1>1, RecorderInvariant, PTL

(***************************************************************************)
(* Two settings never meet in one run, however often the process is        *)
(* restarted with others (_is_compatible of live.py).                      *)
(***************************************************************************)
THEOREM RunsAreHomogeneous == Spec => []SettingsNeverMix
<1>1. RecorderInv => SettingsNeverMix
  BY DEF RecorderInv, SettingsInv, SettingsNeverMix, Safe
<1> QED
  BY <1>1, RecorderInvariant, PTL

(***************************************************************************)
(* A checkpoint, exactly.                                                  *)
(***************************************************************************)
LEMMA Checkpointed ==
  ASSUME Memory, Disk, Checkpoint
  PROVE  /\ \A r \in Runs, m \in Months :
              files'[r][m] = IF r = run /\ m = month /\ buffer # {} THEN buffer ELSE files[r][m]
         /\ ToSet(index') = IF buffer = {} THEN ToSet(index) ELSE ToSet(index) \cup {month}
         /\ buffer # {} => month \in Months
         /\ \A i \in DOMAIN index : i \in DOMAIN index' /\ index'[i] = index[i]
         /\ \A i \in DOMAIN index' : i \in DOMAIN index \/
              (i = Len(index) + 1 /\ index'[i] = month /\ month \notin ToSet(index) /\ buffer # {})
<1>1. /\ run \in Runs /\ index \in Seq(Months)
      /\ files \in [Runs -> [Months -> SUBSET RowNumbers]]
  BY DEF Memory, Disk
<1>2. CASE buffer = {}
  BY <1>1, <1>2 DEF Checkpoint
<1>3. CASE buffer # {}
  <2>1. /\ month \in Months /\ index' = Committed(month)
        /\ files' = [files EXCEPT ![run][month] = buffer]
    BY <1>3 DEF Checkpoint, Memory
  <2>2. \A r \in Runs, m \in Months :
          files'[r][m] = IF r = run /\ m = month THEN buffer ELSE files[r][m]
    BY <1>1, <2>1
  <2>3. CASE month \in ToSet(index)
    BY <1>1, <1>3, <2>1, <2>2, <2>3 DEF Committed, ToSet
  <2>4. CASE month \notin ToSet(index)
    <3>1. /\ index' = Append(index, month) /\ Len(index) \in Nat /\ DOMAIN index = 1..Len(index)
          /\ DOMAIN index' = 1..(Len(index) + 1)
          /\ \A i \in 1..Len(index) : index'[i] = index[i]
          /\ index'[Len(index) + 1] = month
      BY <1>1, <2>1, <2>4 DEF Committed
    <3>2. \A i \in DOMAIN index' : i \in DOMAIN index \/ i = Len(index) + 1
      BY <3>1
    <3>3. \A i \in DOMAIN index : i \in DOMAIN index' /\ index'[i] = index[i]
      BY <3>1
    <3>4. Len(index) + 1 \in DOMAIN index'
      BY <3>1
    <3>5. ToSet(index') = ToSet(index) \cup {month}
      BY <3>1, <3>2, <3>3, <3>4 DEF ToSet
    <3> QED
      BY <1>3, <2>1, <2>2, <2>4, <3>1, <3>2, <3>3, <3>5
  <2> QED
    BY <2>3, <2>4
<1> QED
  BY <1>2, <1>3

LEMMA MonthsIndexed ==
  ASSUME Memory
  PROVE  ToSet(index) \subseteq Months /\ run \in Runs
BY DEF Memory, ToSet

-----------------------------------------------------------------------------
(* What is safe stays safe. *)

(* A row is exempt when its month was cut short or revisited; a month of a *)
(* run is left behind when a row of another month came after one of it.    *)
MonthOf(n) == rows[n].month
Lapsed(n) ==
  <<rows[n].run, MonthOf(n)>> \in cutShort \/ Revisited(rows[n].run, MonthOf(n))
LeftBehind(r, m) ==
  \E i, j \in Recorded(r) : i < j /\ MonthOf(i) = m /\ MonthOf(j) # m

(* The buffer and every file hold rows of one month of one run.            *)
RowsInv ==
  /\ \A n \in buffer : n \in Recorded(run) /\ MonthOf(n) = month
  /\ \A r \in Runs, m \in Months :
       \A n \in files[r][m] : n \in Recorded(r) /\ MonthOf(n) = m
  /\ \A r \in Runs : Safe(r) \subseteq written
  /\ written \subseteq RowNumbers
  /\ month # NoMonth => buffer # {}

(* Of the months a JSON names, all but the last were left behind.          *)
ShardsInv ==
  \A r \in Runs : saved[r] # NotSaved =>
    /\ IsInjective(saved[r].shards)
    /\ \A a, b \in DOMAIN saved[r].shards : a < b => LeftBehind(r, saved[r].shards[a])

(* So it is with the index; a month in it that is not the last and written *)
(* again was come back to.  The JSON names nothing else but the month that *)
(* was taken up.                                                           *)
IndexInv ==
  up => /\ IsInjective(index)
        /\ \A m \in ToSet(index) : m # month => LeftBehind(run, m)
        /\ \A a, b \in DOMAIN index : a < b /\ index[a] = month => Revisited(run, month)
        /\ month \in ToSet(index) =>
             files[run][month] \subseteq buffer \/ Revisited(run, month)
        /\ Named(run) \subseteq ToSet(index) \cup {resumed}

(* Where a row is that was safe: in the file of its month, which the JSON  *)
(* names unless it is the month taken up, and in what the process holds.   *)
KeptInv ==
  \A n \in written : ~Lapsed(n) =>
    /\ n \in files[rows[n].run][MonthOf(n)]
    /\ IF up /\ rows[n].run = run
       THEN /\ MonthOf(n) \in Named(run) \/ MonthOf(n) = resumed
            /\ IF MonthOf(n) = month THEN n \in buffer ELSE MonthOf(n) \in ToSet(index)
       ELSE MonthOf(n) \in Named(rows[n].run)

SurviveInv == RowsInv /\ ShardsInv /\ IndexInv /\ KeptInv

LEMMA InitSurvive == Init => SurviveInv
<1> SUFFICES ASSUME Init PROVE SurviveInv
  OBVIOUS
<1>1. /\ month = NoMonth /\ buffer = {} /\ index = <<>> /\ rows = <<>> /\ written = {}
      /\ files = [r \in Runs |-> [m \in Months |-> {}]]
      /\ saved = [r \in Runs |-> NotSaved] /\ run \in Runs
  BY Constants DEF Init, WriterInit
<1>2. ToSet(index) = {} /\ DOMAIN index = {}
  BY <1>1 DEF ToSet
<1>3. \A r \in Runs : saved[r] = NotSaved /\ Safe(r) = {} /\ Named(r) = {}
  BY <1>1 DEF Safe, Named
<1>4. RowsInv
  BY <1>1, <1>3 DEF RowsInv
<1>5. ShardsInv /\ KeptInv
  BY <1>1, <1>3 DEF ShardsInv, KeptInv
<1>6. IndexInv
  <2>1. IsInjective(index)
    BY <1>2 DEF IsInjective
  <2> QED
    BY <1>1, <1>2, <1>3, <2>1 DEF IndexInv
<1> QED
  BY <1>4, <1>5, <1>6 DEF SurviveInv

LEMMA RowIs ==
  ASSUME Memory
  PROVE  /\ Len(rows) \in Nat
         /\ \A n \in RowNumbers : /\ rows[n] \in Row /\ n \in Nat
                                  /\ rows[n].run \in Runs /\ MonthOf(n) \in Months
         /\ \A r \in Runs : \A n \in Recorded(r) : n \in RowNumbers /\ rows[n].run = r
<1>1. Len(rows) \in Nat /\ \A n \in 1..Len(rows) : rows[n] \in Row /\ n \in Nat
  BY DEF Memory
<1>2. \A x \in Row : x.run \in Runs /\ x.month \in Months
  BY DEF Row
<1>3. \A n \in RowNumbers : rows[n].run \in Runs /\ MonthOf(n) \in Months
  BY <1>1, <1>2 DEF RowNumbers, MonthOf
<1> QED
  BY <1>1, <1>3 DEF RowNumbers, Recorded

(***************************************************************************)
(* Rows are only added, so that what was left behind or come back to stays *)
(* so.                                                                     *)
(***************************************************************************)
LEMMA RowsStay ==
  ASSUME Memory, cutShort \subseteq cutShort',
         RowNumbers \subseteq RowNumbers', \A n \in RowNumbers : rows'[n] = rows[n]
  PROVE  /\ \A n \in RowNumbers : MonthOf(n)' = MonthOf(n)
         /\ \A r \in Runs : Recorded(r) \subseteq Recorded(r)'
         /\ \A r \in Runs, m \in Months :
              /\ LeftBehind(r, m) => LeftBehind(r, m)'
              /\ Revisited(r, m) => Revisited(r, m)'
         /\ \A n \in RowNumbers : Lapsed(n) => Lapsed(n)'
<1>1. \A n \in RowNumbers : MonthOf(n)' = MonthOf(n)
  BY DEF MonthOf
<1>2. \A r \in Runs : Recorded(r) \subseteq Recorded(r)' /\ Recorded(r) \subseteq RowNumbers
  BY DEF Recorded, RowNumbers
<1>3. ASSUME NEW r \in Runs, NEW m \in Months, LeftBehind(r, m) PROVE LeftBehind(r, m)'
  BY <1>1, <1>2, <1>3 DEF LeftBehind
<1>4. ASSUME NEW r \in Runs, NEW m \in Months, Revisited(r, m) PROVE Revisited(r, m)'
  BY <1>2, <1>4 DEF Revisited
<1>5. ASSUME NEW n \in RowNumbers, Lapsed(n) PROVE Lapsed(n)'
  <2>1. rows[n].run \in Runs /\ MonthOf(n) \in Months
    BY RowIs
  <2> QED
    BY <1>1, <1>4, <1>5, <2>1 DEF Lapsed
<1> QED
  BY <1>1, <1>2, <1>3, <1>4, <1>5

(***************************************************************************)
(* A month that was left behind is revisited by its next row.              *)
(***************************************************************************)
LEMMA BackAgain ==
  ASSUME Memory, NEW m \in Months, LeftBehind(run, m), run' = run,
         rows' = Append(rows, [run |-> run, config |-> config, month |-> m])
  PROVE  Revisited(run, m)'
<1>1. /\ Len(rows) \in Nat /\ run \in Runs /\ rows \in Seq(Row)
      /\ [run |-> run, config |-> config, month |-> m] \in Row
  BY DEF Memory, Row
<1>2. PICK i \in Recorded(run), j \in Recorded(run) : i < j /\ MonthOf(i) = m /\ MonthOf(j) # m
  BY DEF LeftBehind
<1> DEFINE k == Len(rows) + 1
<1>3. /\ k \in 1..Len(rows') /\ rows'[k].run = run /\ rows'[k].month = m
      /\ i \in 1..Len(rows') /\ rows'[i] = rows[i] /\ j \in 1..Len(rows') /\ rows'[j] = rows[j]
      /\ j < k
  BY <1>1, <1>2 DEF Recorded
<1>4. /\ rows[i].run = run /\ rows[j].run = run /\ rows[i].month = m /\ rows[j].month # m
  BY <1>2 DEF Recorded, MonthOf
<1> HIDE DEF k
<1>5. \E x, y, z \in {n \in 1..Len(rows') : rows'[n].run = run} :
        /\ x < y /\ y < z
        /\ rows'[x].month = m /\ rows'[y].month # m /\ rows'[z].month = m
  BY <1>2, <1>3, <1>4
<1> QED
  BY <1>5 DEF Revisited, Recorded

(***************************************************************************)
(* A checkpoint: all that the process holds is then in files that its      *)
(* index names, the rows of the buffer among them, and no row that counts  *)
(* has left the file of its month.                                         *)
(***************************************************************************)
LEMMA CheckpointKept ==
  ASSUME RecorderInv, SurviveInv, up, Checkpoint
  PROVE  /\ \A r \in Runs, m \in Months :
              \A n \in files'[r][m] : n \in Recorded(r) /\ MonthOf(n) = m
         /\ \A n \in written : ~Lapsed(n) =>
              /\ n \in files'[rows[n].run][MonthOf(n)]
              /\ rows[n].run = run => MonthOf(n) \in ToSet(index')
         /\ buffer # {} => /\ month \in ToSet(index') /\ month \in Months
                           /\ files'[run][month] = buffer
         /\ \A m \in Months \ {month} : files'[run][m] = files[run][m]
         /\ IsInjective(index') /\ ToSet(index) \subseteq ToSet(index')
         /\ ToSet(index') \subseteq Months
         /\ \A m \in ToSet(index') : m # month => LeftBehind(run, m)
         /\ \A a, b \in DOMAIN index' : a < b /\ index'[a] = month => Revisited(run, month)
         /\ month \in ToSet(index') =>
              files'[run][month] \subseteq buffer \/ Revisited(run, month)
<1>1. /\ Memory /\ Disk /\ RowsInv /\ IndexInv /\ KeptInv
      /\ index \in Seq(Months) /\ run \in Runs /\ ToSet(index) \subseteq Months
  BY MonthsIndexed DEF RecorderInv, SurviveInv, Memory
<1>2. /\ \A r \in Runs, m \in Months :
              files'[r][m] = IF r = run /\ m = month /\ buffer # {} THEN buffer ELSE files[r][m]
      /\ ToSet(index') = IF buffer = {} THEN ToSet(index) ELSE ToSet(index) \cup {month}
      /\ buffer # {} => month \in Months
      /\ \A i \in DOMAIN index : i \in DOMAIN index' /\ index'[i] = index[i]
      /\ \A i \in DOMAIN index' : i \in DOMAIN index \/
           (i = Len(index) + 1 /\ index'[i] = month /\ month \notin ToSet(index) /\ buffer # {})
  BY <1>1, Checkpointed
<1>3. \A r \in Runs, m \in Months : \A n \in files'[r][m] : n \in Recorded(r) /\ MonthOf(n) = m
  BY <1>1, <1>2 DEF RowsInv
<1>4. buffer # {} => /\ month \in ToSet(index') /\ month \in Months
                     /\ files'[run][month] = buffer
  BY <1>1, <1>2
<1>5. ASSUME NEW n \in written, ~Lapsed(n)
      PROVE  /\ n \in files'[rows[n].run][MonthOf(n)]
             /\ rows[n].run = run => MonthOf(n) \in ToSet(index')
  <2>1. /\ n \in files[rows[n].run][MonthOf(n)]
        /\ rows[n].run = run =>
             IF MonthOf(n) = month THEN n \in buffer ELSE MonthOf(n) \in ToSet(index)
    BY <1>1, <1>5 DEF KeptInv
  <2>2. rows[n].run \in Runs /\ MonthOf(n) \in Months
    BY <1>1, RowIs DEF RowsInv
  <2> QED
    BY <1>2, <1>4, <2>1, <2>2
<1>6. /\ \A m \in Months \ {month} : files'[run][m] = files[run][m]
      /\ ToSet(index) \subseteq ToSet(index') /\ ToSet(index') \subseteq Months
  BY <1>1, <1>2
<1>7. \A m \in ToSet(index') : m # month => LeftBehind(run, m)
  BY <1>1, <1>2 DEF IndexInv
<1>8. DOMAIN index = 1..Len(index) /\ Len(index) \in Nat
  BY <1>1
<1>9. \A i \in DOMAIN index : index[i] \in ToSet(index)
  BY DEF ToSet
<1>10. IsInjective(index')
  <2>1. \A i, j \in DOMAIN index : index[i] = index[j] => i = j
    BY <1>1 DEF IndexInv, IsInjective
  <2>2. \A i, j \in DOMAIN index' : index'[i] = index'[j] => i = j
    BY <1>2, <1>9, <2>1
  <2> QED
    BY <2>2 DEF IsInjective
<1>11. ASSUME NEW a \in DOMAIN index', NEW b \in DOMAIN index', a < b, index'[a] = month
       PROVE  Revisited(run, month)
  <2>1. a \in DOMAIN index
    BY <1>2, <1>8, <1>11
  <2>2. b \in DOMAIN index
    BY <1>2, <1>9, <1>11, <2>1
  <2> QED
    BY <1>1, <1>2, <1>11, <2>1, <2>2 DEF IndexInv
<1>12. month \in ToSet(index') => files'[run][month] \subseteq buffer \/ Revisited(run, month)
  BY <1>1, <1>2 DEF IndexInv
<1> QED
  BY <1>3, <1>4, <1>5, <1>6, <1>7, <1>10, <1>11, <1>12

(***************************************************************************)
(* What a checkpoint makes safe was safe, or is in the buffer while the    *)
(* JSON names its month.                                                   *)
(***************************************************************************)
LEMMA CheckpointSafe ==
  ASSUME RecorderInv, SurviveInv, up, Checkpoint, saved' = saved, run' = run
  PROVE  /\ \A r \in Runs \ {run} : Safe(r)' \subseteq written
         /\ \A n \in Safe(run)' : n \in written \/ (n \in buffer /\ month \in Named(run))
<1>1. Memory /\ Disk /\ RowsInv /\ run \in Runs
  BY MonthsIndexed DEF RecorderInv, SurviveInv
<1>2. \A r \in Runs, m \in Months :
        files'[r][m] = IF r = run /\ m = month /\ buffer # {} THEN buffer ELSE files[r][m]
  BY <1>1, Checkpointed
<1>3. ASSUME NEW r \in Runs, NEW n \in Safe(r)'
      PROVE  n \in written \/ (r = run /\ n \in buffer /\ month \in Named(run))
  <2>1. saved[r] # NotSaved /\ \E m \in ToSet(saved[r].shards) : n \in files'[r][m]
    BY <1>3 DEF Safe
  <2>2. PICK m \in ToSet(saved[r].shards) : n \in files'[r][m]
    BY <2>1
  <2>3. m \in Months
    BY <1>1, <2>1, <2>2 DEF Disk, Document, ToSet
  <2>4. CASE r = run /\ m = month /\ buffer # {}
    BY <1>2, <2>1, <2>2, <2>3, <2>4 DEF Named
  <2>5. CASE ~(r = run /\ m = month /\ buffer # {})
    <3>1. n \in files[r][m]
      BY <1>2, <2>2, <2>3, <2>5
    <3>2. n \in Safe(r)
      BY <2>1, <2>2, <3>1 DEF Safe
    <3> QED
      BY <1>1, <3>2 DEF RowsInv
  <2> QED
    BY <2>4, <2>5
<1> QED
  BY <1>1, <1>3

(***************************************************************************)
(* flush, the shard.                                                       *)
(***************************************************************************)
LEMMA WriteShardSurvive ==
  ASSUME RecorderInv, SurviveInv, WriteShard
  PROVE  SurviveInv'
<1>0. /\ RowsInv /\ ShardsInv /\ IndexInv /\ KeptInv /\ Memory /\ run \in Runs
  BY MonthsIndexed DEF SurviveInv, RecorderInv
<1>1. /\ up /\ Checkpoint /\ written' = written \cup Safe(run)'
      /\ UNCHANGED <<run, month, buffer, up, saved, rows, resumed, cutShort>>
  BY DEF WriteShard, losses
<1>2. /\ \A r \in Runs : Recorded(r)' = Recorded(r) /\ Named(r)' = Named(r)
      /\ RowNumbers' = RowNumbers
      /\ \A n \in RowNumbers : MonthOf(n)' = MonthOf(n) /\ (Lapsed(n)' <=> Lapsed(n))
      /\ \A r \in Runs, m \in Months : /\ LeftBehind(r, m)' <=> LeftBehind(r, m)
                                       /\ Revisited(r, m)' <=> Revisited(r, m)
  BY <1>1 DEF Recorded, Named, RowNumbers, MonthOf, Lapsed, LeftBehind, Revisited
<1>3. /\ \A n \in Safe(run)' : n \in written \/ (n \in buffer /\ month \in Named(run))
      /\ \A r \in Runs : Safe(r)' \subseteq written'
  BY <1>1, CheckpointSafe
<1>4. buffer \subseteq RowNumbers
  BY <1>0 DEF Memory
<1>5. RowsInv'
  <2>1. \A r \in Runs, m \in Months :
          \A n \in files'[r][m] : n \in Recorded(r)' /\ MonthOf(n)' = m
    <3>1. \A r \in Runs, m \in Months :
            \A n \in files'[r][m] : n \in Recorded(r) /\ MonthOf(n) = m /\ n \in RowNumbers
      BY <1>0, <1>1, CheckpointKept, RowIs
    <3> QED
      BY <1>2, <3>1
  <2>2. \A n \in buffer' : n \in Recorded(run)' /\ MonthOf(n)' = month'
    BY <1>0, <1>1, <1>2, <1>4 DEF RowsInv
  <2>3. written' \subseteq RowNumbers'
    BY <1>0, <1>1, <1>2, <1>3, <1>4 DEF RowsInv
  <2> QED
    BY <1>0, <1>1, <1>3, <2>1, <2>2, <2>3 DEF RowsInv
<1>6. ShardsInv'
  BY <1>0, <1>1 DEF ShardsInv, LeftBehind, Recorded, MonthOf
<1>7. IndexInv'
  <2>1. /\ IsInjective(index')
        /\ \A m \in ToSet(index') : m # month => LeftBehind(run, m)'
        /\ \A a, b \in DOMAIN index' : a < b /\ index'[a] = month => Revisited(run, month)'
        /\ month \in ToSet(index') =>
             files'[run][month] \subseteq buffer \/ Revisited(run, month)'
        /\ Named(run)' \subseteq ToSet(index') \cup {resumed}
    <3>1. /\ IsInjective(index') /\ ToSet(index) \subseteq ToSet(index')
          /\ \A m \in ToSet(index') : m # month => LeftBehind(run, m)
          /\ \A a, b \in DOMAIN index' : a < b /\ index'[a] = month => Revisited(run, month)
          /\ month \in ToSet(index') =>
               files'[run][month] \subseteq buffer \/ Revisited(run, month)
      BY <1>1, CheckpointKept
    <3>2. ToSet(index') \subseteq Months /\ \A a \in DOMAIN index' : index'[a] \in ToSet(index')
      BY <1>1, CheckpointKept DEF ToSet
    <3>3. Named(run) \subseteq ToSet(index) \cup {resumed}
      BY <1>0, <1>1 DEF IndexInv
    <3> QED
      BY <1>0, <1>1, <1>2, <3>1, <3>2, <3>3
  <2> QED
    BY <1>1, <2>1 DEF IndexInv, LeftBehind, Revisited, Recorded, MonthOf, Named
<1>8. KeptInv'
  <2> SUFFICES ASSUME NEW n \in written', ~Lapsed(n)'
               PROVE  /\ n \in files'[rows[n].run][MonthOf(n)]
                      /\ IF up /\ rows[n].run = run
                         THEN /\ MonthOf(n) \in Named(run) \/ MonthOf(n) = resumed
                              /\ IF MonthOf(n) = month
                                 THEN n \in buffer ELSE MonthOf(n) \in ToSet(index')
                         ELSE MonthOf(n) \in Named(rows[n].run)
    BY <1>1 DEF KeptInv, MonthOf, Named
  <2>1. n \in RowNumbers /\ ~Lapsed(n)
    BY <1>0, <1>1, <1>2, <1>3, <1>4 DEF RowsInv
  <2>2. CASE n \in written
    <3>1. /\ n \in files'[rows[n].run][MonthOf(n)]
          /\ rows[n].run = run => MonthOf(n) \in ToSet(index')
      BY <1>1, <2>1, <2>2, CheckpointKept
    <3> QED
      BY <1>0, <1>1, <2>1, <2>2, <3>1 DEF KeptInv
  <2>3. CASE n \notin written
    <3>1. n \in buffer /\ month \in Named(run)
      BY <1>1, <1>3, <2>3
    <3>2. rows[n].run = run /\ MonthOf(n) = month /\ files'[run][month] = buffer
      BY <1>0, <1>1, <3>1, CheckpointKept DEF RowsInv, Recorded
    <3> QED
      BY <1>1, <3>1, <3>2
  <2> QED
    BY <2>2, <2>3
<1> QED
  BY <1>5, <1>6, <1>7, <1>8 DEF SurviveInv

(***************************************************************************)
(* flush, the JSON: it names the index, in which the months but the one    *)
(* being written were left behind.                                         *)
(***************************************************************************)
LEMMA WriteJsonSurvive ==
  ASSUME RecorderInv, SurviveInv, WriteJson
  PROVE  SurviveInv'
<1>0. /\ RowsInv /\ ShardsInv /\ IndexInv /\ KeptInv /\ Memory /\ Disk
      /\ run \in Runs /\ ToSet(index) \subseteq Months
  BY MonthsIndexed DEF SurviveInv, RecorderInv
<1> DEFINE doc == [config |-> config, account |-> account, shards |-> index]
<1>1. /\ up /\ saved' = [saved EXCEPT ![run] = doc] /\ written' = written \cup Safe(run)'
      /\ UNCHANGED <<run, month, buffer, index, files, up, rows, resumed, cutShort>>
  BY DEF WriteJson, writer, losses
<1>2. doc # NotSaved /\ doc.shards = index
  <2>1. "account" \in DOMAIN doc /\ "account" \notin DOMAIN NotSaved
    BY DEF NotSaved
  <2> QED
    BY <2>1
<1> HIDE DEF doc
<1>3. \A r \in Runs : saved'[r] = IF r = run THEN doc ELSE saved[r]
  BY <1>0, <1>1 DEF Disk
<1>4. /\ \A r \in Runs : Recorded(r)' = Recorded(r)
      /\ RowNumbers' = RowNumbers
      /\ \A n \in RowNumbers : MonthOf(n)' = MonthOf(n) /\ (Lapsed(n)' <=> Lapsed(n))
      /\ \A r \in Runs, m \in Months : /\ LeftBehind(r, m)' <=> LeftBehind(r, m)
                                       /\ Revisited(r, m)' <=> Revisited(r, m)
  BY <1>1 DEF Recorded, RowNumbers, MonthOf, Lapsed, LeftBehind, Revisited
<1>5. /\ \A r \in Runs \ {run} : Named(r)' = Named(r) /\ Safe(r)' = Safe(r)
      /\ Named(run)' = ToSet(index)
      /\ \A n \in Safe(run)' : \E m \in ToSet(index) : n \in files[run][m]
  BY <1>0, <1>1, <1>2, <1>3 DEF Named, Safe
<1>6. RowsInv'
  <2>1. Safe(run)' \subseteq RowNumbers
    BY <1>0, <1>5, RowIs DEF RowsInv
  <2>2. \A r \in Runs : Safe(r)' \subseteq written'
    BY <1>0, <1>1, <1>5 DEF RowsInv
  <2>3. written' \subseteq RowNumbers'
    BY <1>0, <1>1, <1>4, <2>1 DEF RowsInv
  <2>4. \A n \in buffer' : n \in Recorded(run)' /\ MonthOf(n)' = month'
    BY <1>0, <1>1, <1>4 DEF RowsInv, Memory
  <2>5. \A r \in Runs, m \in Months :
          \A n \in files'[r][m] : n \in Recorded(r)' /\ MonthOf(n)' = m
    BY <1>0, <1>1, <1>4, RowIs DEF RowsInv
  <2> QED
    BY <1>0, <1>1, <2>2, <2>3, <2>4, <2>5 DEF RowsInv
<1>7. ShardsInv'
  <2> SUFFICES ASSUME NEW r \in Runs, saved'[r] # NotSaved
               PROVE  /\ IsInjective(saved'[r].shards)
                      /\ \A a, b \in DOMAIN saved'[r].shards :
                           a < b => LeftBehind(r, saved'[r].shards[a])
    BY <1>1 DEF ShardsInv, LeftBehind, Recorded, MonthOf
  <2>1. CASE r # run
    BY <1>0, <1>3, <2>1 DEF ShardsInv
  <2>2. CASE r = run
    <3>1. saved'[r].shards = index /\ IsInjective(index)
      BY <1>0, <1>1, <1>2, <1>3, <2>2 DEF IndexInv
    <3>2. ASSUME NEW a \in DOMAIN index, NEW b \in DOMAIN index, a < b
          PROVE  LeftBehind(run, index[a])
      <4>1. CASE index[a] # month
        BY <1>0, <1>1, <4>1 DEF IndexInv, ToSet
      <4>2. CASE index[a] = month
        <5>1. Revisited(run, month)
          BY <1>0, <1>1, <3>2, <4>2 DEF IndexInv
        <5> QED
          BY <4>2, <5>1 DEF Revisited, LeftBehind, MonthOf
      <4> QED
        BY <4>1, <4>2
    <3> QED
      BY <2>2, <3>1, <3>2
  <2> QED
    BY <2>1, <2>2
<1>8. IndexInv'
  <2>1. Named(run)' \subseteq ToSet(index) \cup {resumed}
    BY <1>5
  <2> QED
    BY <1>0, <1>1, <2>1 DEF IndexInv, LeftBehind, Revisited, Recorded, MonthOf
<1>9. KeptInv'
  <2> SUFFICES ASSUME NEW n \in written', ~Lapsed(n)'
               PROVE  /\ n \in files[rows[n].run][MonthOf(n)]
                      /\ IF up /\ rows[n].run = run
                         THEN /\ MonthOf(n) \in Named(run)' \/ MonthOf(n) = resumed
                              /\ IF MonthOf(n) = month
                                 THEN n \in buffer ELSE MonthOf(n) \in ToSet(index)
                         ELSE MonthOf(n) \in Named(rows[n].run)'
    BY <1>1 DEF KeptInv, MonthOf, Named
  <2>1. n \in RowNumbers /\ ~Lapsed(n) /\ rows[n].run \in Runs
    BY <1>0, <1>4, <1>6, RowIs DEF RowsInv
  <2>2. CASE n \in written
    <3>1. n \in files[rows[n].run][MonthOf(n)]
      BY <1>0, <2>1, <2>2 DEF KeptInv
    <3>2. CASE rows[n].run = run
      <4>1. /\ MonthOf(n) \in Named(run) \/ MonthOf(n) = resumed
            /\ IF MonthOf(n) = month THEN n \in buffer ELSE MonthOf(n) \in ToSet(index)
            /\ Named(run) \subseteq ToSet(index) \cup {resumed}
        BY <1>0, <1>1, <2>1, <2>2, <3>2 DEF KeptInv, IndexInv
      <4> QED
        BY <1>1, <1>5, <3>1, <3>2, <4>1
    <3>3. CASE rows[n].run # run
      <4>1. MonthOf(n) \in Named(rows[n].run)
        BY <1>0, <2>1, <2>2, <3>3 DEF KeptInv
      <4>2. Named(rows[n].run)' = Named(rows[n].run)
        BY <1>1, <1>5, <2>1, <3>3
      <4> QED
        BY <3>1, <3>3, <4>1, <4>2
    <3> QED
      BY <3>2, <3>3
  <2>3. CASE n \notin written
    <3>1. PICK m \in ToSet(index) : n \in files[run][m]
      BY <1>1, <1>5, <2>3
    <3>2. rows[n].run = run /\ MonthOf(n) = m
      BY <1>0, <3>1 DEF RowsInv, Recorded
    <3>3. m = month => n \in buffer
      BY <1>0, <1>1, <2>1, <3>1, <3>2 DEF IndexInv, Lapsed
    <3> QED
      BY <1>1, <1>5, <3>1, <3>2, <3>3
  <2> QED
    BY <2>2, <2>3
<1> QED
  BY <1>6, <1>7, <1>8, <1>9 DEF SurviveInv

(***************************************************************************)
(* record_event: a row of the same month; or of another, which leaves the  *)
(* month of the buffer behind, and if the index has it, comes back to it.  *)
(***************************************************************************)
LEMMA RecordEventSurvive ==
  ASSUME RecorderInv, SurviveInv, NEW s \in Symbols, NEW m \in Months, RecordEvent(s, m)
  PROVE  SurviveInv'
<1>0. /\ RowsInv /\ ShardsInv /\ IndexInv /\ KeptInv /\ Memory /\ Disk
      /\ run \in Runs /\ rows \in Seq(Row) /\ Len(rows) \in Nat
      /\ ToSet(index) \subseteq Months /\ buffer \subseteq RowNumbers
  BY MonthsIndexed DEF SurviveInv, RecorderInv, Memory
<1>1. /\ up /\ Add(Len(rows'), m) /\ written' = written \cup Safe(run)'
      /\ rows' = Append(rows, [run |-> run, config |-> config, month |-> m])
      /\ UNCHANGED <<run, up, saved, resumed, cutShort>>
  BY DEF RecordEvent, losses
<1>2. PICK new : new = Len(rows) + 1
  OBVIOUS
<1>3. /\ Len(rows') = new /\ new \notin RowNumbers /\ RowNumbers' = RowNumbers \cup {new}
      /\ rows'[new].run = run /\ rows'[new].month = m
      /\ \A n \in RowNumbers : rows'[n] = rows[n] /\ n < new
  <2>1. [run |-> run, config |-> config, month |-> m] \in Row
    BY <1>0 DEF Row, Memory
  <2>2. /\ Len(rows') = Len(rows) + 1
        /\ rows'[Len(rows) + 1] = [run |-> run, config |-> config, month |-> m]
        /\ \A n \in 1..Len(rows) : rows'[n] = rows[n]
    BY <1>0, <1>1, <2>1
  <2>3. rows'[new].run = run /\ rows'[new].month = m
    BY <1>2, <2>2
  <2> QED
    BY <1>0, <1>2, <2>2, <2>3 DEF RowNumbers
<1>4. new \in Recorded(run)' /\ MonthOf(new)' = m
  BY <1>1, <1>3 DEF Recorded, RowNumbers, MonthOf
<1>5. /\ \A n \in RowNumbers : MonthOf(n)' = MonthOf(n)
      /\ \A r \in Runs : Recorded(r) \subseteq Recorded(r)'
      /\ \A r \in Runs, k \in Months : /\ LeftBehind(r, k) => LeftBehind(r, k)'
                                       /\ Revisited(r, k) => Revisited(r, k)'
      /\ \A n \in RowNumbers : Lapsed(n) => Lapsed(n)'
  BY <1>0, <1>1, <1>3, RowsStay
<1>6. \A r \in Runs : Named(r)' = Named(r) /\ Named(r) \subseteq Months
  BY <1>0, <1>1 DEF Named, Disk, Document, ToSet
<1>7. ShardsInv'
  <2>1. ASSUME NEW r \in Runs, saved[r] # NotSaved, NEW a \in DOMAIN saved[r].shards
        PROVE  saved[r].shards[a] \in Months
    BY <1>0, <2>1 DEF Disk, Document
  <2> QED
    BY <1>0, <1>1, <1>5, <2>1 DEF ShardsInv
<1>8. CASE m = month /\ buffer' = buffer \cup {new} /\ UNCHANGED <<month, index, files>>
  <2>1. written' = written /\ \A r \in Runs : Safe(r)' \subseteq written
    <3>1. \A r \in Runs : Safe(r)' = Safe(r)
      BY <1>1, <1>8 DEF Safe
    <3> QED
      BY <1>0, <1>1, <3>1 DEF RowsInv
  <2>2. RowsInv'
    <3>1. \A n \in buffer' : n \in Recorded(run)' /\ MonthOf(n)' = month'
      BY <1>0, <1>1, <1>4, <1>5, <1>8 DEF RowsInv
    <3>2. \A r \in Runs, k \in Months :
            \A n \in files'[r][k] : n \in Recorded(r)' /\ MonthOf(n)' = k
      BY <1>0, <1>5, <1>8, RowIs DEF RowsInv
    <3>3. written' \subseteq RowNumbers'
      BY <1>0, <1>3, <2>1 DEF RowsInv
    <3> QED
      BY <1>1, <1>8, <2>1, <3>1, <3>2, <3>3 DEF RowsInv
  <2>3. IndexInv'
    <3>1. /\ IsInjective(index)
          /\ \A k \in ToSet(index) : k # month => LeftBehind(run, k)'
          /\ \A a, b \in DOMAIN index : a < b /\ index[a] = month => Revisited(run, month)'
          /\ month \in ToSet(index) =>
               files[run][month] \subseteq buffer' \/ Revisited(run, month)'
          /\ Named(run)' \subseteq ToSet(index) \cup {resumed}
      BY <1>0, <1>1, <1>5, <1>6, <1>8 DEF IndexInv
    <3> QED
      BY <1>1, <1>8, <3>1 DEF IndexInv
  <2>4. KeptInv'
    <3>1. ASSUME NEW n \in written', ~Lapsed(n)'
          PROVE  n \in written /\ ~Lapsed(n) /\ MonthOf(n)' = MonthOf(n)
                 /\ rows'[n] = rows[n] /\ rows[n].run \in Runs
      BY <1>0, <1>3, <1>5, <2>1, <3>1, RowIs DEF RowsInv
    <3> QED
      BY <1>0, <1>1, <1>6, <1>8, <3>1 DEF KeptInv
  <2> QED
    BY <1>7, <2>2, <2>3, <2>4 DEF SurviveInv
<1>9. CASE m # month /\ Checkpoint /\ month' = m /\ buffer' = {new}
  <2>1. /\ \A r \in Runs, k \in Months :
             \A n \in files'[r][k] : n \in Recorded(r) /\ MonthOf(n) = k
        /\ \A n \in written : ~Lapsed(n) =>
             /\ n \in files'[rows[n].run][MonthOf(n)]
             /\ rows[n].run = run => MonthOf(n) \in ToSet(index')
        /\ buffer # {} => /\ month \in ToSet(index') /\ month \in Months
                          /\ files'[run][month] = buffer
        /\ IsInjective(index') /\ ToSet(index) \subseteq ToSet(index')
        /\ ToSet(index') \subseteq Months
        /\ \A k \in ToSet(index') : k # month => LeftBehind(run, k)
    BY <1>1, <1>9, CheckpointKept
  <2>2. /\ \A r \in Runs : Safe(r)' \subseteq written'
        /\ \A n \in written' : n \in written \/ (n \in buffer /\ month \in Named(run))
    BY <1>1, <1>9, CheckpointSafe
  <2>3. m \in ToSet(index') => Revisited(run, m)'
    BY <1>0, <1>1, <1>9, <2>1, BackAgain
  <2>4. ASSUME NEW k \in ToSet(index'), k # m PROVE LeftBehind(run, k)'
    <3>1. CASE k # month
      <4>1. k \in Months /\ LeftBehind(run, k)
        BY <2>1, <3>1
      <4> QED
        BY <1>0, <1>1, <1>5, <4>1
    <3>2. CASE k = month
      <4>1. PICK n \in buffer : n \in Recorded(run) /\ MonthOf(n) = month /\ n \in RowNumbers
        BY <1>0, <2>1, <3>2, Constants DEF RowsInv
      <4>2. n \in Recorded(run)' /\ MonthOf(n)' = k /\ n < new
        BY <1>0, <1>1, <1>3, <1>5, <3>2, <4>1
      <4> QED
        BY <1>1, <1>4, <2>4, <4>2 DEF LeftBehind
    <3> QED
      BY <3>1, <3>2
  <2>5. RowsInv'
    <3>1. \A n \in buffer' : n \in Recorded(run)' /\ MonthOf(n)' = month'
      BY <1>4, <1>9
    <3>2. \A r \in Runs, k \in Months :
            \A n \in files'[r][k] : n \in Recorded(r)' /\ MonthOf(n)' = k
      BY <1>0, <1>5, <2>1, RowIs
    <3>3. written' \subseteq RowNumbers'
      BY <1>0, <1>3, <2>2 DEF RowsInv
    <3> QED
      BY <1>1, <1>9, <2>2, <3>1, <3>2, <3>3 DEF RowsInv
  <2>6. IndexInv'
    <3>1. \A a \in DOMAIN index' : index'[a] \in ToSet(index')
      BY DEF ToSet
    <3>2. Named(run)' \subseteq ToSet(index') \cup {resumed}
      BY <1>0, <1>1, <1>6, <2>1 DEF IndexInv
    <3> QED
      BY <1>1, <1>9, <2>1, <2>3, <2>4, <3>1, <3>2 DEF IndexInv
  <2>7. KeptInv'
    <3> SUFFICES ASSUME NEW n \in written', ~Lapsed(n)'
                 PROVE  /\ n \in files'[rows[n].run][MonthOf(n)]
                        /\ IF rows[n].run = run
                           THEN /\ MonthOf(n) \in Named(run) \/ MonthOf(n) = resumed
                                /\ MonthOf(n) # m /\ MonthOf(n) \in ToSet(index')
                           ELSE MonthOf(n) \in Named(rows[n].run)
      <4>1. \A n \in written' : /\ n \in RowNumbers /\ rows'[n] = rows[n]
                                /\ MonthOf(n)' = MonthOf(n) /\ rows[n].run \in Runs
        BY <1>0, <1>3, <1>5, <2>2, RowIs DEF RowsInv
      <4> QED
        BY <1>1, <1>6, <1>9, <4>1 DEF KeptInv
    <3>1. n \in RowNumbers /\ ~Lapsed(n) /\ rows'[n] = rows[n] /\ MonthOf(n)' = MonthOf(n)
      BY <1>0, <1>3, <1>5, <2>2 DEF RowsInv
    <3>2. rows[n].run = run /\ MonthOf(n) = m => ~(m \in ToSet(index'))
      BY <1>1, <2>3, <3>1 DEF Lapsed
    <3>3. CASE n \in written
      BY <1>0, <1>1, <2>1, <3>1, <3>2, <3>3 DEF KeptInv
    <3>4. CASE n \notin written
      <4>1. n \in buffer /\ month \in Named(run)
        BY <2>2, <3>4
      <4>2. rows[n].run = run /\ MonthOf(n) = month
        BY <1>0, <4>1 DEF RowsInv, Recorded
      <4> QED
        BY <1>9, <2>1, <4>1, <4>2
    <3> QED
      BY <3>3, <3>4
  <2> QED
    BY <1>7, <2>5, <2>6, <2>7 DEF SurviveInv
<1> QED
  BY <1>1, <1>2, <1>3, <1>8, <1>9 DEF Add

(***************************************************************************)
(* The end of a process: the month it took up lapses unless its JSON names *)
(* it again.  The other steps touch no shard.                              *)
(***************************************************************************)
LEMMA OtherStepsSurvive ==
  ASSUME RecorderInv, SurviveInv,
         Raise \/ EndEvent \/ Close \/ Exit \/ ApplyFill \/ AppendTrade \/ DieInAppend
         \/ UNCHANGED vars
  PROVE  SurviveInv'
<1>0. RowsInv /\ ShardsInv /\ IndexInv /\ KeptInv /\ Memory
  BY DEF SurviveInv, RecorderInv
<1>1. /\ UNCHANGED <<run, month, buffer, index, files, rows, saved, written, resumed>>
      /\ \/ UNCHANGED <<up, cutShort>>
         \/ up /\ Die
  BY DEF Raise, EndEvent, Close, Exit, ApplyFill, AppendTrade, DieInAppend, Die, vars, losses,
         writer
<1>2. RowsInv' /\ ShardsInv'
  BY <1>0, <1>1 DEF RowsInv, ShardsInv, Recorded, RowNumbers, MonthOf, Safe, LeftBehind
<1>3. IndexInv'
  <2>1. CASE UNCHANGED <<up, cutShort>>
    BY <1>0, <1>1, <2>1 DEF IndexInv, LeftBehind, Revisited, Recorded, MonthOf, Named
  <2>2. CASE up /\ Die
    BY <2>2 DEF IndexInv, Die
  <2> QED
    BY <1>1, <2>1, <2>2
<1>4. KeptInv'
  <2>1. CASE UNCHANGED <<up, cutShort>>
    BY <1>0, <1>1, <2>1 DEF KeptInv, Lapsed, Revisited, Recorded, MonthOf, Named
  <2>2. CASE up /\ Die
    <3>1. /\ ~up' /\ cutShort \subseteq cutShort'
          /\ \A m \in Months : m = resumed /\ m \notin Named(run) => <<run, m>> \in cutShort'
      BY <2>2, Constants DEF Die
    <3> SUFFICES ASSUME NEW n \in written, ~Lapsed(n)'
                 PROVE  /\ n \in files[rows[n].run][MonthOf(n)]
                        /\ MonthOf(n) \in Named(rows[n].run)
      BY <1>1, <3>1 DEF KeptInv, MonthOf, Named
    <3>2. ~Lapsed(n) /\ <<rows[n].run, MonthOf(n)>> \notin cutShort'
      BY <1>1, <3>1 DEF Lapsed, Revisited, Recorded, MonthOf
    <3>3. MonthOf(n) \in Months
      BY <1>0, RowIs DEF RowsInv
    <3> QED
      BY <1>0, <2>2, <3>1, <3>2, <3>3 DEF KeptInv
  <2> QED
    BY <1>1, <2>1, <2>2
<1> QED
  BY <1>2, <1>3, <1>4 DEF SurviveInv

(***************************************************************************)
(* What resume takes from the JSON: the last shard goes to the buffer, the *)
(* others stay in the index.                                               *)
(***************************************************************************)
LEMMA ResumedShards ==
  ASSUME NEW shards \in Seq(Months), shards # <<>>, IsInjective(shards), Resume(shards)
  PROVE  /\ Last(shards) \in Months /\ buffer' = files[run'][Last(shards)]
         /\ month' = IF buffer' = {} THEN NoMonth ELSE Last(shards)
         /\ ToSet(shards) = ToSet(index') \cup {Last(shards)}
         /\ Last(shards) \notin ToSet(index') /\ ToSet(index') \subseteq Months
         /\ IsInjective(index')
         /\ \A a \in DOMAIN index' :
              index'[a] = shards[a] /\ \E b \in DOMAIN shards : a < b /\ a \in DOMAIN shards
<1>1. /\ Len(shards) \in Nat /\ Len(shards) > 0 /\ DOMAIN shards = 1..Len(shards)
      /\ \A i \in 1..Len(shards) : shards[i] \in Months
  OBVIOUS
<1> DEFINE n == Len(shards) - 1
<1>2. /\ n \in Nat /\ n + 1 = Len(shards) /\ 1..(n + 1) = (1..n) \cup {n + 1}
      /\ n + 1 \in 1..Len(shards) /\ \A i \in 1..n : i < n + 1 /\ i \in 1..Len(shards)
  BY <1>1
<1>3. /\ index' = SubSeq(shards, 1, n) /\ Last(shards) = shards[n + 1]
      /\ buffer' = files[run'][Last(shards)]
      /\ month' = IF buffer' = {} THEN NoMonth ELSE Last(shards)
  BY <1>2 DEF Resume, Front, Last
<1> HIDE DEF n
<1>4. DOMAIN index' = 1..n /\ \A i \in 1..n : index'[i] = shards[i]
  <2>1. n \in Int /\ \A i \in 1..n : shards[i] \in Months
    BY <1>1, <1>2
  <2>2. /\ SubSeq(shards, 1, n) \in Seq(Months) /\ Len(SubSeq(shards, 1, n)) = n
        /\ \A i \in 1..n : SubSeq(shards, 1, n)[i] = shards[i]
    BY <1>2, <2>1, SubSeqProperties
  <2> QED
    BY <1>3, <2>2
<1>5. /\ ToSet(index') = {shards[i] : i \in 1..n}
      /\ ToSet(shards) = {shards[i] : i \in 1..n} \cup {shards[n + 1]}
  BY <1>1, <1>2, <1>4 DEF ToSet
<1>6. \A i, j \in 1..Len(shards) : shards[i] = shards[j] => i = j
  BY <1>1 DEF IsInjective
<1>7. \A i \in 1..n : shards[i] # shards[n + 1]
  BY <1>2, <1>6
<1>8. IsInjective(index')
  BY <1>2, <1>4, <1>6 DEF IsInjective
<1>9. Last(shards) \in Months /\ ToSet(index') \subseteq Months
  BY <1>1, <1>2, <1>3, <1>5
<1>10. \A a \in DOMAIN index' :
         index'[a] = shards[a] /\ \E b \in DOMAIN shards : a < b /\ a \in DOMAIN shards
  BY <1>1, <1>2, <1>4
<1> QED
  BY <1>3, <1>5, <1>7, <1>8, <1>9, <1>10

(***************************************************************************)
(* A process that starts reads back what the JSON names, or begins a run   *)
(* that has no row yet.                                                    *)
(***************************************************************************)
LEMMA RestartSurvive ==
  ASSUME RecorderInv, SurviveInv, NEW c \in Configs, Restart(c)
  PROVE  SurviveInv'
<1>0. RowsInv /\ ShardsInv /\ KeptInv /\ Disk /\ Memory /\ RunsToCome
  BY DEF SurviveInv, RecorderInv
<1>1. /\ up' = TRUE /\ ~up /\ restarts' = restarts + 1 /\ restarts < MaxRestarts
      /\ UNCHANGED <<files, saved, rows, written, cutShort>>
  BY DEF Restart
<1>2. restarts' \in Runs /\ 0 \in Runs /\ saved[restarts'] = NotSaved
  <2>1. restarts' \in Runs /\ 0 \in Runs /\ restarts' > restarts
    BY <1>0, <1>1, Constants DEF Memory
  <2> QED
    BY <1>0, <2>1 DEF RunsToCome
<1>3. ASSUME NEW n \in written, ~Lapsed(n)
      PROVE  /\ n \in files[rows[n].run][MonthOf(n)] /\ MonthOf(n) \in Named(rows[n].run)
  BY <1>0, <1>1, <1>3 DEF KeptInv
<1>4. \A n \in written : Lapsed(n)' <=> Lapsed(n)
  BY <1>1 DEF Lapsed, Revisited, Recorded, MonthOf
<1>5. /\ month' # NoMonth => buffer' # {}
      /\ \A n \in buffer' : n \in Recorded(run') /\ MonthOf(n) = month'
      /\ IsInjective(index') /\ month' \notin ToSet(index')
      /\ \A m \in ToSet(index') : LeftBehind(run', m)
      /\ Named(run') \subseteq ToSet(index') \cup {resumed'}
      /\ \A n \in written : ~Lapsed(n) /\ rows[n].run = run' =>
           IF MonthOf(n) = month' THEN n \in buffer' ELSE MonthOf(n) \in ToSet(index')
  <2>1. CASE \/ \E r \in {0, restarts'} : saved[r] = NotSaved /\ Begin(r)
             \/ GoOn(saved[0]) /\ saved[0] # NotSaved /\ saved[0].shards = <<>>
    <3>1. /\ month' = NoMonth /\ buffer' = {} /\ index' = <<>>
          /\ Named(run') = {}
      BY <2>1 DEF Begin, GoOn, ResumeWriter, FreshWriter, Named, ToSet
    <3>2. ToSet(index') = {} /\ DOMAIN index' = {}
      BY <3>1 DEF ToSet
    <3>3. IsInjective(index')
      BY <3>2 DEF IsInjective
    <3> QED
      BY <1>3, <3>1, <3>2, <3>3
  <2>2. CASE saved[0] # NotSaved /\ GoOn(saved[0]) /\ saved[0].shards # <<>>
    <3>1. /\ saved[0] \in Document /\ run' = 0
      BY <1>0, <1>2, <2>2 DEF Disk, GoOn
    <3>2. PICK shards \in Seq(Months) : shards = saved[0].shards
      BY <3>1 DEF Document
    <3>3. Resume(shards) /\ resumed' = Last(shards) /\ Named(0) = ToSet(shards)
      BY <2>2, <3>2 DEF GoOn, ResumeWriter, Named
    <3>4. /\ IsInjective(shards)
          /\ \A a, b \in DOMAIN shards : a < b => LeftBehind(0, shards[a])
      BY <1>0, <1>2, <2>2, <3>2 DEF ShardsInv
    <3>5. /\ Last(shards) \in Months /\ buffer' = files[0][Last(shards)]
          /\ month' = IF buffer' = {} THEN NoMonth ELSE Last(shards)
          /\ ToSet(shards) = ToSet(index') \cup {Last(shards)}
          /\ Last(shards) \notin ToSet(index') /\ ToSet(index') \subseteq Months
          /\ IsInjective(index')
          /\ \A a \in DOMAIN index' :
               index'[a] = shards[a] /\ \E b \in DOMAIN shards : a < b /\ a \in DOMAIN shards
      BY <2>2, <3>1, <3>2, <3>3, <3>4, ResumedShards
    <3>6. \A m \in ToSet(index') : LeftBehind(0, m)
      BY <3>4, <3>5 DEF ToSet
    <3>7. \A n \in buffer' : n \in Recorded(0) /\ MonthOf(n) = Last(shards)
      BY <1>0, <1>2, <3>5 DEF RowsInv
    <3>8. ASSUME NEW n \in written, ~Lapsed(n), rows[n].run = 0
          PROVE  IF MonthOf(n) = month' THEN n \in buffer' ELSE MonthOf(n) \in ToSet(index')
      <4>1. n \in files[0][MonthOf(n)] /\ MonthOf(n) \in ToSet(index') \cup {Last(shards)}
        BY <1>3, <3>3, <3>5, <3>8
      <4> QED
        BY <3>5, <4>1, Constants
    <3> QED
      BY <3>1, <3>3, <3>5, <3>6, <3>7, <3>8, Constants
  <2> QED
    BY <1>2, <2>1, <2>2 DEF Restart
<1>6. RowsInv'
  BY <1>0, <1>1, <1>5 DEF RowsInv, Recorded, RowNumbers, MonthOf, Safe
<1>7. ShardsInv'
  BY <1>0, <1>1 DEF ShardsInv, LeftBehind, Recorded, MonthOf
<1>8. IndexInv'
  <2>1. \A a \in DOMAIN index' : index'[a] \in ToSet(index')
    BY DEF ToSet
  <2> QED
    BY <1>1, <1>5, <2>1 DEF IndexInv, LeftBehind, Revisited, Recorded, MonthOf, Named
<1>9. KeptInv'
  <2>1. ASSUME NEW n \in written, ~Lapsed(n)'
        PROVE  /\ n \in files[rows[n].run][MonthOf(n)]
               /\ MonthOf(n) \in Named(rows[n].run)
               /\ rows[n].run = run' =>
                    IF MonthOf(n) = month' THEN n \in buffer' ELSE MonthOf(n) \in ToSet(index')
    BY <1>3, <1>4, <1>5, <2>1
  <2> QED
    BY <1>1, <2>1 DEF KeptInv, MonthOf, Named
<1> QED
  BY <1>6, <1>7, <1>8, <1>9 DEF SurviveInv

LEMMA SurviveInvariant == Spec => []SurviveInv
<1>1. Init => SurviveInv
  BY InitSurvive
<1>2. RecorderInv /\ SurviveInv /\ [Next]_vars => SurviveInv'
  BY RecordEventSurvive, WriteShardSurvive, WriteJsonSurvive, OtherStepsSurvive, RestartSurvive
     DEF Next
<1> QED
  BY <1>1, <1>2, RecorderInvariant, PTL DEF Spec

(***************************************************************************)
(* However many symbols there are and however often the process dies: a    *)
(* row that was ever safe on disk is held by its process or is in a file   *)
(* that its run's JSON names, also when another process with other         *)
(* settings writes now.  Excepted are the rows of two kinds of months: one *)
(* that a process took up from its last shard and did not live to name in  *)
(* the JSON again, and one that the run came back to after another month   *)
(* (ShardWriter.resume and add, and live.py's promise that a death in the  *)
(* middle leaves the previous state whole).                                *)
(***************************************************************************)
THEOREM SavedRowsSurvive == Spec => []RowsSurvive
<1>1. SurviveInv => RowsSurvive
  <2> SUFFICES ASSUME SurviveInv, NEW n \in written, ~Lapsed(n)
               PROVE  n \in Remains(rows[n].run)
    BY DEF RowsSurvive, Lapsed, MonthOf
  <2>1. /\ n \in files[rows[n].run][MonthOf(n)]
        /\ IF up /\ rows[n].run = run
           THEN n \in buffer \/ MonthOf(n) \in ToSet(index)
           ELSE MonthOf(n) \in Named(rows[n].run)
    BY DEF SurviveInv, KeptInv
  <2>2. CASE up /\ rows[n].run = run
    BY <2>1, <2>2 DEF Remains, Held
  <2>3. CASE ~(up /\ rows[n].run = run)
    BY <2>1, <2>3 DEF Remains, Safe, Named
  <2> QED
    BY <2>2, <2>3
<1> QED
  BY <1>1, SurviveInvariant, PTL

-----------------------------------------------------------------------------
(* What a death costs. *)

(* The rows of this process whose month was not come back to are in the    *)
(* buffer or in the indexed file of a month before; once flushed, all are  *)
(* in indexed files.                                                       *)
MyRows == (born + 1)..Len(rows)
Once(n) == ~Revisited(rows[n].run, MonthOf(n))
Filed(n) == MonthOf(n) \in ToSet(index) /\ n \in files[run][MonthOf(n)]

HeldInv ==
  /\ born \in Nat /\ born <= Len(rows) /\ sinceFlush \in Nat
  /\ up => \A n \in MyRows :
       /\ rows[n].run = run
       /\ Once(n) => n \in buffer \/ (MonthOf(n) # month /\ Filed(n))
       /\ Once(n) /\ sinceFlush = 0 => Filed(n)

(* A row that is not safe was added since the last flush; between the two  *)
(* writes of a flush, at most as many are not safe as before it.           *)
Unsafe == {n \in MyRows \ written : Once(n)}

CountInv ==
  /\ skipped \in Nat /\ inEvent \in BOOLEAN
  /\ pc \in {"free", "append", "shard", "json"}
  /\ up =>
       /\ sinceFlush <= FlushEvery + skipped
       /\ pc = "free" /\ ~inEvent => sinceFlush < FlushEvery + skipped
       /\ pc = "json" => sinceFlush < FlushEvery
       /\ Cardinality(Unsafe) <= IF pc = "json" /\ sinceFlush = 0
                                 THEN FlushEvery + skipped ELSE sinceFlush

LossInv == HeldInv /\ CountInv

LEMMA InitLoss == Init => LossInv
<1> SUFFICES ASSUME Init PROVE LossInv
  OBVIOUS
<1>1. /\ rows = <<>> /\ born = 0
      /\ sinceFlush = 0 /\ skipped = 0 /\ inEvent = FALSE /\ pc = "free"
  BY DEF Init
<1>2. MyRows = {} /\ Unsafe = {}
  BY <1>1 DEF MyRows, Unsafe
<1>3. Cardinality(Unsafe) = 0
  BY <1>2, FS_EmptySet
<1>4. HeldInv
  BY <1>1, <1>2 DEF HeldInv
<1>5. CountInv
  <2>1. 0 < FlushEvery + 0 /\ FlushEvery + 0 >= 0 /\ 0 < FlushEvery
    BY FlushAssumption
  <2>2. pc # "json" /\ Cardinality(Unsafe) <= sinceFlush
    BY <1>1, <1>3
  <2>3. sinceFlush <= FlushEvery + skipped /\ sinceFlush < FlushEvery + skipped /\ skipped \in Nat
    BY <1>1, <2>1
  <2>4. inEvent \in BOOLEAN /\ pc \in {"free", "append", "shard", "json"}
    BY <1>1
  <2> QED
    BY <2>2, <2>3, <2>4 DEF CountInv
<1> QED
  BY <1>4, <1>5 DEF LossInv

LEMMA UnsafeFinite ==
  ASSUME born \in Nat, Len(rows) \in Nat
  PROVE  IsFiniteSet(Unsafe) /\ Cardinality(Unsafe) \in Nat
<1>1. IsFiniteSet(MyRows)
  <2>1. born + 1 \in Int /\ Len(rows) \in Int
    OBVIOUS
  <2> QED
    BY <2>1, FS_Interval DEF MyRows
<1>2. Unsafe \subseteq MyRows
  BY DEF Unsafe
<1> QED
  BY <1>1, <1>2, FS_Subset, FS_CardinalityType

LEMMA SmallerUnsafe ==
  ASSUME born \in Nat, Len(rows) \in Nat, Unsafe' \subseteq Unsafe
  PROVE  Cardinality(Unsafe') <= Cardinality(Unsafe)
         /\ Cardinality(Unsafe') \in Nat /\ Cardinality(Unsafe) \in Nat
BY UnsafeFinite, FS_Subset, FS_CardinalityType

(***************************************************************************)
(* record_event: when a month rolls over, its rows go to its file; a file  *)
(* that is begun anew is of a month that was come back to.                 *)
(***************************************************************************)
LEMMA RecordEventHeld ==
  ASSUME RecorderInv, SurviveInv, HeldInv, NEW s \in Symbols, NEW m \in Months, RecordEvent(s, m)
  PROVE  /\ HeldInv' /\ MyRows' = MyRows \cup {Len(rows) + 1}
         /\ \A n \in MyRows : Once(n)' => Once(n)
<1>0. /\ Memory /\ Disk /\ rows \in Seq(Row) /\ Len(rows) \in Nat /\ RowsInv /\ IndexInv
      /\ born \in Nat /\ born <= Len(rows) /\ run \in Runs /\ ToSet(index) \subseteq Months
  BY MonthsIndexed DEF RecorderInv, Memory, HeldInv, SurviveInv
<1>1. /\ up /\ rows' = Append(rows, [run |-> run, config |-> config, month |-> m])
      /\ Add(Len(rows'), m) /\ UNCHANGED <<run, up, born, cutShort>>
      /\ sinceFlush' = sinceFlush + 1
  BY DEF RecordEvent, losses
<1>2. PICK new : new = Len(rows) + 1
  OBVIOUS
<1>3. /\ Len(rows') = new /\ new \in Nat /\ RowNumbers \subseteq RowNumbers'
      /\ rows'[new].run = run /\ rows'[new].month = m
      /\ \A n \in RowNumbers : rows'[n] = rows[n]
  <2>1. [run |-> run, config |-> config, month |-> m] \in Row
    BY <1>0 DEF Row, Memory
  <2> QED
    BY <1>0, <1>1, <1>2, <2>1 DEF RowNumbers
<1>4. MyRows' = MyRows \cup {new} /\ MyRows \subseteq RowNumbers
  BY <1>0, <1>1, <1>2, <1>3 DEF MyRows, RowNumbers
<1>5. /\ \A n \in RowNumbers : MonthOf(n)' = MonthOf(n) /\ MonthOf(n) \in Months
      /\ \A r \in Runs, i \in Months : Revisited(r, i) => Revisited(r, i)'
  BY <1>0, <1>1, <1>3, RowsStay, RowIs
<1>6. ASSUME NEW n \in MyRows
      PROVE  rows'[n].run = run /\ (Once(n)' => Once(n))
  <2>0. rows[n].run = run
    <3>1. up
      BY <1>1
    <3> QED
      BY <1>6, <3>1 DEF HeldInv
  <2>1. n \in RowNumbers /\ rows[n].run = run /\ rows'[n] = rows[n]
    BY <1>3, <1>4, <1>6, <2>0
  <2>2. rows'[n].run = rows[n].run /\ rows[n].run \in Runs
        /\ MonthOf(n) \in Months /\ MonthOf(n)' = MonthOf(n)
    BY <1>0, <1>5, <2>1
  <2>3. Once(n)' => Once(n)
    BY <1>5, <2>2 DEF Once
  <2> QED
    BY <2>1, <2>3
<1>7. new \in buffer' /\ month' = m
  BY <1>1, <1>3 DEF Add
<1>8. ASSUME NEW n \in MyRows, Once(n)'
      PROVE  n \in buffer' \/ (MonthOf(n)' # month' /\ Filed(n)')
  <2>1. /\ n \in RowNumbers /\ MonthOf(n) \in Months /\ MonthOf(n)' = MonthOf(n)
        /\ n \in buffer \/ (MonthOf(n) # month /\ Filed(n))
    BY <1>1, <1>4, <1>5, <1>6, <1>8 DEF HeldInv
  <2>2. CASE m = month /\ buffer' = buffer \cup {new} /\ UNCHANGED <<month, index, files>>
    BY <1>1, <2>1, <2>2 DEF Filed
  <2>3. CASE m # month /\ Checkpoint /\ month' = m
    <3>1. MonthOf(n) \in ToSet(index') /\ n \in files'[run][MonthOf(n)]
      <4>1. CASE n \in buffer
        BY <1>0, <2>3, <4>1, Checkpointed DEF RowsInv
      <4>2. CASE MonthOf(n) # month /\ Filed(n)
        BY <1>0, <2>1, <2>3, <4>2, Checkpointed DEF Filed
      <4> QED
        BY <2>1, <4>1, <4>2
    <3>2. MonthOf(n) # m
      <4> SUFFICES ASSUME MonthOf(n) = m PROVE FALSE
        OBVIOUS
      <4>1. m \in ToSet(index)
        BY <1>0, <2>1, <2>3 DEF RowsInv, Filed
      <4>2. LeftBehind(run, m)
        BY <1>0, <1>1, <2>3, <4>1 DEF IndexInv
      <4>3. Revisited(run, m)'
        BY <1>0, <1>1, <4>2, BackAgain
      <4>4. rows'[n].run = run
        BY <1>6
      <4> QED
        BY <1>1, <1>8, <2>1, <4>3, <4>4 DEF Once
    <3> QED
      BY <1>1, <2>1, <2>3, <3>1, <3>2 DEF Filed
  <2> QED
    BY <1>1, <1>2, <1>3, <2>2, <2>3 DEF Add
<1>9. sinceFlush' \in Nat /\ sinceFlush' # 0
  BY <1>1 DEF HeldInv
<1>10. born' \in Nat /\ born' <= Len(rows')
  BY <1>0, <1>1, <1>2, <1>3
<1>11. HeldInv'
  <2>1. ASSUME NEW n \in MyRows'
        PROVE  rows'[n].run = run' /\ (Once(n)' => n \in buffer' \/ (MonthOf(n)' # month' /\ Filed(n)'))
    <3>1. CASE n = new
      BY <1>1, <1>3, <1>7, <3>1
    <3>2. CASE n \in MyRows
      BY <1>1, <1>6, <1>8, <3>2
    <3> QED
      BY <1>4, <2>1, <3>1, <3>2
  <2>2. up' => \A n \in MyRows' :
          /\ rows'[n].run = run'
          /\ Once(n)' => n \in buffer' \/ (MonthOf(n)' # month' /\ Filed(n)')
          /\ Once(n)' /\ sinceFlush' = 0 => Filed(n)'
    BY <1>9, <2>1
  <2> QED
    BY <1>9, <1>10, <2>2 DEF HeldInv
<1> QED
  BY <1>2, <1>4, <1>6, <1>11

LEMMA RecordEventCount ==
  ASSUME RecorderInv, SurviveInv, LossInv,
         NEW s \in Symbols, NEW m \in Months, RecordEvent(s, m)
  PROVE  LossInv'
<1>1. /\ up /\ pc = "free" /\ ~inEvent /\ sinceFlush' = sinceFlush + 1 /\ inEvent' = TRUE
      /\ written \subseteq written' /\ UNCHANGED <<up, pc, skipped, born>>
  BY DEF RecordEvent
<1>2. /\ HeldInv' /\ MyRows' = MyRows \cup {Len(rows) + 1}
      /\ \A n \in MyRows : Once(n)' => Once(n)
  BY RecordEventHeld DEF LossInv
<1>3. /\ sinceFlush \in Nat /\ skipped \in Nat
      /\ sinceFlush < FlushEvery + skipped /\ Cardinality(Unsafe) <= sinceFlush
  BY <1>1 DEF LossInv, HeldInv, CountInv
<1>4. Cardinality(Unsafe') <= Cardinality(Unsafe) + 1 /\ Cardinality(Unsafe) \in Nat
      /\ Cardinality(Unsafe') \in Nat
  <2>1. Unsafe' \subseteq Unsafe \cup {Len(rows) + 1}
    BY <1>1, <1>2 DEF Unsafe
  <2>2. IsFiniteSet(Unsafe) /\ Cardinality(Unsafe) \in Nat
    BY UnsafeFinite DEF LossInv, HeldInv, RecorderInv, Memory
  <2>3. IsFiniteSet(Unsafe \cup {Len(rows) + 1})
        /\ Cardinality(Unsafe \cup {Len(rows) + 1}) <= Cardinality(Unsafe) + 1
    <3>1. /\ IsFiniteSet(Unsafe \cup {Len(rows) + 1})
          /\ Cardinality(Unsafe \cup {Len(rows) + 1}) =
               IF Len(rows) + 1 \in Unsafe THEN Cardinality(Unsafe) ELSE Cardinality(Unsafe) + 1
      BY <2>2, FS_AddElement
    <3> QED
      BY <2>2, <3>1
  <2>4. IsFiniteSet(Unsafe') /\ Cardinality(Unsafe') <= Cardinality(Unsafe \cup {Len(rows) + 1})
    BY <2>1, <2>3, FS_Subset
  <2>5. /\ Cardinality(Unsafe') \in Nat
        /\ Cardinality(Unsafe \cup {Len(rows) + 1}) \in Nat
    BY <2>3, <2>4, FS_CardinalityType
  <2> QED
    BY <2>2, <2>3, <2>4, <2>5
<1>5. Cardinality(Unsafe') <= sinceFlush'
  BY <1>1, <1>3, <1>4
<1>6. sinceFlush' <= FlushEvery + skipped' /\ skipped' \in Nat
  BY <1>1, <1>3, FlushAssumption
<1>7. CountInv'
  BY <1>1, <1>5, <1>6 DEF CountInv
<1> QED
  BY <1>2, <1>7 DEF LossInv

LEMMA WriteShardLoss ==
  ASSUME RecorderInv, SurviveInv, LossInv, WriteShard
  PROVE  LossInv'
<1>0. /\ Memory /\ Disk /\ RowsInv /\ HeldInv /\ CountInv
      /\ run \in Runs /\ ToSet(index) \subseteq Months
  BY MonthsIndexed DEF RecorderInv, SurviveInv, LossInv
<1>1. /\ up /\ pc = "shard" /\ pc' = "json" /\ Checkpoint /\ sinceFlush' = 0
      /\ UNCHANGED <<run, month, buffer, up, inEvent, rows, born, skipped>>
      /\ written \subseteq written'
  BY DEF WriteShard
<1>2. /\ MyRows' = MyRows
      /\ \A n \in MyRows : MonthOf(n)' = MonthOf(n) /\ Once(n)' = Once(n)
  BY <1>1 DEF MyRows, Once, MonthOf, Revisited, Recorded
<1>3. ASSUME NEW n \in MyRows, Once(n)
      PROVE  Filed(n)' /\ (n \in buffer' \/ (MonthOf(n)' # month' /\ Filed(n)'))
  <2>1. n \in buffer \/ (MonthOf(n) # month /\ Filed(n))
    BY <1>0, <1>1, <1>3 DEF HeldInv
  <2>2. CASE n \in buffer
    <3>1. MonthOf(n) \in ToSet(index') /\ n \in files'[run][MonthOf(n)]
      BY <1>0, <1>1, <2>2, Checkpointed DEF RowsInv
    <3> QED
      BY <1>1, <1>2, <2>2, <3>1 DEF Filed
  <2>3. CASE MonthOf(n) # month /\ Filed(n)
    <3>1. MonthOf(n) \in ToSet(index') /\ n \in files'[run][MonthOf(n)]
      BY <1>0, <1>1, <2>3, Checkpointed DEF Filed
    <3> QED
      BY <1>1, <1>2, <2>3, <3>1 DEF Filed
  <2> QED
    BY <2>1, <2>2, <2>3
<1>5. HeldInv'
  BY <1>0, <1>1, <1>2, <1>3 DEF HeldInv
<1>6. Cardinality(Unsafe') <= FlushEvery + skipped
  <2>1. Unsafe' \subseteq Unsafe
    BY <1>1, <1>2 DEF Unsafe
  <2>2. born \in Nat /\ Len(rows) \in Nat
    BY <1>0 DEF HeldInv, Memory
  <2>3. Cardinality(Unsafe') <= Cardinality(Unsafe) /\ Cardinality(Unsafe') \in Nat
        /\ Cardinality(Unsafe) \in Nat
    BY <2>1, <2>2, SmallerUnsafe
  <2>4. /\ Cardinality(Unsafe) <= sinceFlush /\ sinceFlush <= FlushEvery + skipped
        /\ sinceFlush \in Nat /\ skipped \in Nat
    BY <1>0, <1>1 DEF CountInv, HeldInv
  <2> QED
    BY <2>3, <2>4, FlushAssumption
<1>7. CountInv'
  <2>1. /\ 0 <= FlushEvery + skipped /\ 0 < FlushEvery /\ skipped \in Nat
    BY <1>0, FlushAssumption DEF CountInv
  <2> QED
    BY <1>0, <1>1, <1>6, <2>1 DEF CountInv
<1> QED
  BY <1>5, <1>7 DEF LossInv

LEMMA WriteJsonLoss ==
  ASSUME RecorderInv, LossInv, WriteJson
  PROVE  LossInv'
<1>0. Memory /\ Disk /\ HeldInv /\ CountInv
  BY DEF RecorderInv, LossInv
<1> DEFINE doc == [config |-> config, account |-> account, shards |-> index]
<1>1. /\ up /\ pc = "json" /\ pc' = "free" /\ saved' = [saved EXCEPT ![run] = doc]
      /\ UNCHANGED <<run, month, buffer, index, files, up, inEvent, rows, born, sinceFlush>>
      /\ written' = written \cup Safe(run)'
      /\ skipped' = IF sinceFlush = 0 THEN 0 ELSE skipped
  BY DEF WriteJson, writer
<1>2. doc # NotSaved /\ doc.shards = index
  <2>1. "account" \in DOMAIN doc /\ "account" \notin DOMAIN NotSaved
    BY DEF NotSaved
  <2> QED
    BY <2>1
<1> HIDE DEF doc
<1>3. /\ MyRows' = MyRows
      /\ \A n \in MyRows : Once(n)' = Once(n) /\ Filed(n)' = Filed(n) /\ MonthOf(n)' = MonthOf(n)
      /\ \A n \in MyRows : Filed(n) => n \in written'
  <2>1. saved'[run] = doc
    BY <1>0, <1>1 DEF Memory, Disk
  <2>2. \A n : Filed(n) => n \in written'
    BY <1>1, <1>2, <2>1 DEF Safe, Filed
  <2> QED
    BY <1>1, <2>2 DEF MyRows, Once, Filed, MonthOf, Revisited, Recorded
<1>4. HeldInv'
  BY <1>0, <1>1, <1>3 DEF HeldInv
<1>5. Unsafe' \subseteq Unsafe
  BY <1>1, <1>3 DEF Unsafe
<1>6. sinceFlush = 0 => Unsafe' = {}
  BY <1>0, <1>1, <1>3 DEF Unsafe, HeldInv
<1>7. Cardinality(Unsafe') <= sinceFlush
  <2>1. CASE sinceFlush = 0
    BY <1>6, <2>1, FS_EmptySet
  <2>2. CASE sinceFlush # 0
    <3>1. born \in Nat /\ Len(rows) \in Nat
      BY <1>0 DEF HeldInv, Memory
    <3>2. Cardinality(Unsafe') <= Cardinality(Unsafe) /\ Cardinality(Unsafe') \in Nat
          /\ Cardinality(Unsafe) \in Nat
      BY <1>5, <3>1, SmallerUnsafe
    <3>3. Cardinality(Unsafe) <= sinceFlush /\ sinceFlush \in Nat
      BY <1>0, <1>1, <2>2 DEF CountInv, HeldInv
    <3> QED
      BY <3>2, <3>3
  <2> QED
    BY <2>1, <2>2
<1>8. skipped' \in Nat /\ sinceFlush' < FlushEvery + skipped' /\ sinceFlush' <= FlushEvery + skipped'
  <2>1. sinceFlush < FlushEvery /\ sinceFlush \in Nat /\ skipped \in Nat
    BY <1>0, <1>1 DEF CountInv, HeldInv
  <2> QED
    BY <1>1, <2>1, FlushAssumption
<1>9. CountInv'
  BY <1>0, <1>1, <1>7, <1>8 DEF CountInv
<1> QED
  BY <1>4, <1>9 DEF LossInv

LEMMA OtherStepsLoss ==
  ASSUME RecorderInv, LossInv,
         Raise \/ EndEvent \/ Close \/ Exit \/ ApplyFill \/ AppendTrade \/ DieInAppend
         \/ UNCHANGED vars
  PROVE  LossInv'
<1>1. UNCHANGED <<writer, rows, born, sinceFlush, written>> /\ (up' => up)
  BY DEF Raise, EndEvent, Close, Exit, ApplyFill, AppendTrade, DieInAppend, Die, vars
<1>2. HeldInv'
  BY <1>1 DEF LossInv, HeldInv, MyRows, Filed, Once, MonthOf, Revisited, Recorded, writer
<1>3. Unsafe' = Unsafe
  BY <1>1 DEF Unsafe, MyRows, Once, MonthOf, Revisited, Recorded
<1>4. /\ sinceFlush \in Nat /\ skipped \in Nat /\ inEvent \in BOOLEAN
      /\ pc \in {"free", "append", "shard", "json"} /\ CountInv
  BY DEF LossInv, HeldInv, CountInv
<1>5. CASE Raise
  <2>1. /\ up /\ pc = "free" /\ inEvent' = FALSE /\ skipped' = skipped + 1
        /\ UNCHANGED <<up, pc>>
    BY <1>5 DEF Raise
  <2>2. sinceFlush <= FlushEvery + skipped /\ Cardinality(Unsafe) <= sinceFlush
    BY <1>4, <2>1 DEF CountInv
  <2>3. sinceFlush' < FlushEvery + skipped' /\ sinceFlush' <= FlushEvery + skipped' /\ skipped' \in Nat
    BY <1>1, <1>4, <2>1, <2>2, FlushAssumption
  <2>4. Cardinality(Unsafe') <= sinceFlush'
    BY <1>1, <1>3, <2>2
  <2>5. CountInv'
    BY <1>4, <2>1, <2>3, <2>4 DEF CountInv
  <2> QED
    BY <1>2, <2>5 DEF LossInv
<1>6. CASE EndEvent
  <2>1. /\ up /\ pc = "free" /\ inEvent' = FALSE
        /\ pc' = IF sinceFlush >= FlushEvery THEN "shard" ELSE "json"
        /\ UNCHANGED <<up, skipped>>
    BY <1>6 DEF EndEvent
  <2>2. sinceFlush <= FlushEvery + skipped /\ Cardinality(Unsafe) <= sinceFlush
    BY <1>4, <2>1 DEF CountInv
  <2>3. pc' \in {"shard", "json"} /\ (pc' = "json" => sinceFlush < FlushEvery)
    BY <1>4, <2>1, FlushAssumption
  <2>4. Cardinality(Unsafe') <= IF pc' = "json" /\ sinceFlush' = 0
                                THEN FlushEvery + skipped' ELSE sinceFlush'
    <3>1. Cardinality(Unsafe') <= sinceFlush'
      BY <1>1, <1>3, <2>2
    <3>2. sinceFlush' <= FlushEvery + skipped' /\ sinceFlush' \in Nat /\ skipped' \in Nat
      BY <1>1, <1>4, <2>1, <2>2
    <3>3. CASE pc' = "json" /\ sinceFlush' = 0
      <4>1. Cardinality(Unsafe') <= 0
        BY <3>1, <3>3
      <4>2. 0 <= FlushEvery + skipped'
        BY <3>2, <3>3
      <4>3. Cardinality(Unsafe') \in Nat
        <5>1. born \in Nat /\ Len(rows) \in Nat
          BY DEF LossInv, HeldInv, RecorderInv, Memory
        <5> QED
          BY <1>3, <5>1, SmallerUnsafe
      <4> QED
        BY <3>2, <3>3, <4>1, <4>2, <4>3, FlushAssumption
    <3>4. CASE ~(pc' = "json" /\ sinceFlush' = 0)
      BY <3>1, <3>4
    <3> QED
      BY <3>3, <3>4
  <2>5. CountInv'
    BY <1>1, <1>4, <2>1, <2>2, <2>3, <2>4 DEF CountInv
  <2> QED
    BY <1>2, <2>5 DEF LossInv
<1>7. CASE Close \/ ApplyFill
  <2>1. /\ up /\ pc = "free" /\ pc' \in {"shard", "append"}
        /\ UNCHANGED <<up, inEvent, skipped>>
    BY <1>7 DEF Close, ApplyFill
  <2>2. CountInv'
    BY <1>1, <1>3, <1>4, <2>1 DEF CountInv
  <2> QED
    BY <1>2, <2>2 DEF LossInv
<1>8. CASE AppendTrade
  <2>1. /\ up /\ pc = "append" /\ pc' = "shard" /\ UNCHANGED <<up, inEvent, skipped>>
    BY <1>8 DEF AppendTrade
  <2>2. CountInv'
    BY <1>1, <1>3, <1>4, <2>1 DEF CountInv
  <2> QED
    BY <1>2, <2>2 DEF LossInv
<1>9. CASE Exit \/ DieInAppend
  <2>1. up' = FALSE /\ pc' = "free" /\ inEvent' = FALSE /\ skipped' = skipped
    BY <1>9 DEF Exit, DieInAppend, Die
  <2>2. CountInv'
    BY <1>1, <1>4, <2>1 DEF CountInv
  <2> QED
    BY <1>2, <2>2 DEF LossInv
<1>10. CASE UNCHANGED vars
  <2>1. CountInv'
    BY <1>3, <1>4, <1>10 DEF CountInv, vars
  <2> QED
    BY <1>2, <2>1 DEF LossInv
<1> QED
  BY <1>5, <1>6, <1>7, <1>8, <1>9, <1>10

LEMMA RestartLoss ==
  ASSUME RecorderInv, LossInv, NEW c \in Configs, Restart(c)
  PROVE  LossInv'
<1>1. /\ born' = Len(rows) /\ sinceFlush' = 0 /\ skipped' = 0
      /\ ~up /\ UNCHANGED <<pc, inEvent, rows>>
  BY DEF Restart
<1>2. Len(rows) \in Nat /\ inEvent \in BOOLEAN /\ pc \in {"free", "append", "shard", "json"}
  BY DEF RecorderInv, Memory, LossInv, HeldInv, CountInv
<1>3. MyRows' = {} /\ Unsafe' = {}
  BY <1>1, <1>2 DEF MyRows, Unsafe
<1>4. Cardinality(Unsafe') = 0
  BY <1>3, FS_EmptySet
<1>5. HeldInv'
  BY <1>1, <1>2, <1>3 DEF HeldInv
<1>6. 0 < FlushEvery + 0 /\ 0 <= FlushEvery + 0 /\ 0 < FlushEvery
  BY FlushAssumption
<1>7. Cardinality(Unsafe') <= IF pc' = "json" /\ sinceFlush' = 0
                              THEN FlushEvery + skipped' ELSE sinceFlush'
  BY <1>1, <1>4, <1>6
<1>8. CountInv'
  BY <1>1, <1>2, <1>6, <1>7 DEF CountInv
<1> QED
  BY <1>5, <1>8 DEF LossInv

LEMMA NextLoss ==
  ASSUME RecorderInv, SurviveInv, LossInv, [Next]_vars
  PROVE  LossInv'
BY RecordEventCount, WriteShardLoss, WriteJsonLoss, OtherStepsLoss, RestartLoss DEF Next

(***************************************************************************)
(* Wherever the process dies, it takes at most FlushEvery rows with it and *)
(* those of the events that raised before their end_event (the periodic    *)
(* checkpoint of flush, and the flush of a month that rolls over), not     *)
(* counting rows of a month the run came back to: a row that was flushed   *)
(* but not yet named by the JSON can be overwritten there.                 *)
(***************************************************************************)
THEOREM LossIsBounded == Spec => []LossBounded
<1>1. Init => LossInv
  BY InitLoss
<1>2. RecorderInv /\ SurviveInv /\ LossInv /\ [Next]_vars => LossInv'
  BY NextLoss
<1>3. RecorderInv /\ LossInv => LossBounded
  <2> SUFFICES ASSUME RecorderInv, LossInv, up
               PROVE  Cardinality(Unsafe) <= FlushEvery + skipped
    <3>1. Unsafe = {n \in (born + 1 .. Len(rows)) \ written :
                      ~Revisited(rows[n].run, rows[n].month)}
      BY DEF Unsafe, MyRows, Once, MonthOf
    <3> QED
      BY <3>1 DEF LossBounded
  <2>1. /\ sinceFlush <= FlushEvery + skipped /\ sinceFlush \in Nat /\ skipped \in Nat
        /\ Cardinality(Unsafe) <= IF pc = "json" /\ sinceFlush = 0
                                  THEN FlushEvery + skipped ELSE sinceFlush
    BY DEF LossInv, HeldInv, CountInv
  <2>2. born \in Nat /\ Len(rows) \in Nat
    BY DEF RecorderInv, Memory, LossInv, HeldInv
  <2>3. Cardinality(Unsafe) \in Nat
    BY <2>2, UnsafeFinite
  <2> QED
    BY <2>1, <2>3, FlushAssumption
<1> QED
  BY <1>1, <1>2, <1>3, RecorderInvariant, SurviveInvariant, PTL DEF Spec

-----------------------------------------------------------------------------
(* The loops of a run.  Names and order follow the model: the accounts of  *)
(* an event, the indicators, the live loop, and the backtest beside it.    *)

-----------------------------------------------------------------------------
(* Numbers, and the folds of the model: FoldLeft is a function chosen for  *)
(* its recursion on sets of positions, so first there is such a function,  *)
(* and then every such function runs through the elements in order.        *)

\* A set of numbers that is not empty has a least one.
LEMMA LeastOf ==
  ASSUME NEW S \in SUBSET Nat, S # {}
  PROVE  \E x \in S : \A y \in S : x <= y
<1>1. PICK x \in S : \A y \in S : ~(<<y, x>> \in OpToRel(<, Nat))
  BY WFMin, NatLessThanWellFounded
<1>2. \A y \in S : x <= y
  <2> SUFFICES ASSUME NEW y \in S, ~(x <= y) PROVE FALSE
    OBVIOUS
  <2>1. x \in Nat /\ y \in Nat /\ y < x
    OBVIOUS
  <2>2. <<y, x>> \in OpToRel(<, Nat)
    BY <2>1 DEF OpToRel
  <2> QED
    BY <1>1, <2>2
<1> QED
  BY <1>2

\* Induction over the numbers up to n, for a set of them.
LEMMA UpTo ==
  ASSUME NEW n \in Nat, NEW S, 0 \in S, \A i \in 1..n : i - 1 \in S => i \in S
  PROVE  \A i \in 0..n : i \in S
<1> DEFINE C == {i \in 0..n : i \notin S}
<1> SUFFICES ASSUME C # {} PROVE FALSE
  OBVIOUS
<1>1. PICK i \in C : \A y \in C : i <= y
  <2>1. C \in SUBSET Nat
    OBVIOUS
  <2> HIDE DEF C
  <2> QED
    BY <2>1, LeastOf
<1>2. i \in 0..n /\ i # 0
  OBVIOUS
<1>3. i - 1 \in 0..n /\ i \in 1..n
  BY <1>2
<1>4. i - 1 \notin C
  BY <1>1, <1>2
<1> QED
  BY <1>3, <1>4

\* The largest element of a prefix.
LEMMA PrefixMax ==
  ASSUME NEW n \in Nat, NEW i \in 1..n
  PROVE  /\ 1..i \in SUBSET (1..n) /\ 1..i # {}
         /\ Max(1..i) = i /\ (1..i) \ {Max(1..i)} = 1..(i - 1)
<1>1. i \in 1..i /\ \A y \in 1..i : y <= i
  OBVIOUS
<1>2. \A x \in 1..i : (\A y \in 1..i : y <= x) => x = i
  BY <1>1
<1>3. Max(1..i) = i
  BY <1>1, <1>2 DEF Max
<1> QED
  BY <1>3

\* The largest element of a set of numbers up to n.
LEMMA MaxIs ==
  ASSUME NEW n \in Nat, NEW T \in SUBSET (0..n), T # {}
  PROVE  Max(T) \in T /\ \A y \in T : y <= Max(T)
<1> DEFINE Low == {k \in 0..n : n - k \in T}
<1>1. PICK k \in Low : \A y \in Low : k <= y
  <2>1. Low \in SUBSET Nat
    OBVIOUS
  <2>2. PICK m \in T : TRUE
    OBVIOUS
  <2>3. m \in 0..n
    OBVIOUS
  <2>4. n - m \in Low
    BY <2>2, <2>3
  <2>5. Low # {}
    BY <2>4
  <2> HIDE DEF Low
  <2> QED
    BY <2>1, <2>5, LeastOf
<1>2. n - k \in T
  OBVIOUS
<1>3. \A y \in T : y <= n - k
  <2> SUFFICES ASSUME NEW y \in T PROVE y <= n - k
    OBVIOUS
  <2>1. y \in 0..n
    OBVIOUS
  <2>2. n - y \in 0..n /\ n - (n - y) = y
    BY <2>1
  <2>3. n - y \in Low
    BY <2>2
  <2>4. k <= n - y /\ k \in 0..n
    BY <2>3, <1>1
  <2> QED
    BY <2>1, <2>4
<1>4. \E x \in T : \A y \in T : y <= x
  BY <1>2, <1>3
<1> QED
  BY <1>4 DEF Max

\* A function on sets of positions that follows the recursion of a fold.
Folded(h, base, G, n) ==
  h = [T \in SUBSET (1..n) |-> IF T = {} THEN base ELSE G[<<h[T \ {Max(T)}], Max(T)>>]]

\* There is one, with all its results in X.
LEMMA FoldExists ==
  ASSUME NEW X, NEW base \in X, NEW n \in Nat, NEW G \in [X \X (1..n) -> X]
  PROVE  \E h \in [SUBSET (1..n) -> X] : Folded(h, base, G, n)
<1> DEFINE Good(m, h) ==
      /\ h \in [SUBSET (1..m) -> X]
      /\ \A T \in SUBSET (1..m) :
           h[T] = IF T = {} THEN base ELSE G[<<h[T \ {Max(T)}], Max(T)>>]
           S == {m \in 0..n : \E h : Good(m, h)}
<1>1. 0 \in S
  <2>1. 1..0 = {}
    OBVIOUS
  <2> DEFINE h == [T \in SUBSET (1..0) |-> base]
  <2>2. h \in [SUBSET (1..0) -> X]
    OBVIOUS
  <2>3. \A T \in SUBSET (1..0) : T = {} /\ h[T] = base
    BY <2>1
  <2>4. Good(0, h)
    BY <2>2, <2>3
  <2> HIDE DEF Good, h
  <2> QED
    BY <2>4
<1>2. ASSUME NEW m \in 1..n, m - 1 \in S PROVE m \in S
  <2>1. PICK h : Good(m - 1, h)
    BY <1>2
  <2>2. m \in 1..n /\ 1..m = (1..(m - 1)) \cup {m}
    OBVIOUS
  <2> DEFINE e == [T \in SUBSET (1..m) |->
                     IF m \in T THEN G[<<h[T \ {m}], m>>] ELSE h[T]]
  <2>3. \A T \in SUBSET (1..m) : T \ {m} \in SUBSET (1..(m - 1))
    BY <2>2
  <2>4. \A T \in SUBSET (1..m) : m \notin T => T \in SUBSET (1..(m - 1))
    BY <2>2
  <2>5. \A T \in SUBSET (1..m) : m \in T => Max(T) = m
    <3> SUFFICES ASSUME NEW T \in SUBSET (1..m), m \in T PROVE Max(T) = m
      OBVIOUS
    <3>1. T \in SUBSET (0..m) /\ m \in Nat
      OBVIOUS
    <3>2. Max(T) \in T /\ m <= Max(T)
      BY <3>1, MaxIs
    <3>3. Max(T) \in 1..m
      BY <3>2
    <3> QED
      BY <3>2, <3>3
  <2>6. h \in [SUBSET (1..(m - 1)) -> X]
    BY <2>1
  <2>7. e \in [SUBSET (1..m) -> X]
    <3> SUFFICES ASSUME NEW T \in SUBSET (1..m)
                 PROVE (IF m \in T THEN G[<<h[T \ {m}], m>>] ELSE h[T]) \in X
      OBVIOUS
    <3>1. CASE m \in T
      <4>1. h[T \ {m}] \in X
        BY <2>3, <2>6
      <4>2. <<h[T \ {m}], m>> \in X \X (1..n)
        BY <4>1, <2>2
      <4> QED
        BY <4>2, <3>1
    <3>2. CASE m \notin T
      BY <2>4, <2>6, <3>2
    <3> QED
      BY <3>1, <3>2
  <2>8. ASSUME NEW T \in SUBSET (1..m)
        PROVE  e[T] = IF T = {} THEN base ELSE G[<<e[T \ {Max(T)}], Max(T)>>]
    <3>1. CASE m \in T
      <4>1. Max(T) = m /\ T # {}
        BY <2>5, <3>1
      <4>2. e[T \ {m}] = h[T \ {m}]
        OBVIOUS
      <4> HIDE DEF e
      <4>3. e[T] = G[<<h[T \ {m}], m>>]
        BY <3>1 DEF e
      <4> QED
        BY <4>1, <4>2, <4>3
    <3>2. CASE m \notin T
      <4>1. T \in SUBSET (1..(m - 1))
        BY <2>4, <3>2
      <4>2. e[T] = h[T]
        BY <3>2
      <4>3. h[T] = IF T = {} THEN base ELSE G[<<h[T \ {Max(T)}], Max(T)>>]
        BY <2>1, <4>1
      <4>4. e[T \ {Max(T)}] = h[T \ {Max(T)}]
        BY <3>2
      <4> HIDE DEF e
      <4> QED
        BY <4>2, <4>3, <4>4
    <3> QED
      BY <3>1, <3>2
  <2> HIDE DEF e
  <2>9. Good(m, e)
    BY <2>7, <2>8
  <2> HIDE DEF Good
  <2> QED
    BY <2>9
<1>3. n \in S
  <2> HIDE DEF S
  <2>1. \A i \in 0..n : i \in S
    BY <1>1, <1>2, UpTo
  <2> QED
    BY <2>1
<1>4. PICK h : Good(n, h)
  BY <1>3
<1>5. h \in [SUBSET (1..n) -> X]
  BY <1>4
<1>6. h = [T \in SUBSET (1..n) |-> IF T = {} THEN base ELSE G[<<h[T \ {Max(T)}], Max(T)>>]]
  <2>1. h = [T \in SUBSET (1..n) |-> h[T]]
    BY <1>5
  <2>2. \A T \in SUBSET (1..n) :
          h[T] = IF T = {} THEN base ELSE G[<<h[T \ {Max(T)}], Max(T)>>]
    BY <1>4
  <2> DEFINE e == [T \in SUBSET (1..n) |-> IF T = {} THEN base ELSE G[<<h[T \ {Max(T)}], Max(T)>>]]
  <2>3. \A T \in SUBSET (1..n) : h[T] = e[T]
    BY <2>2
  <2>4. DOMAIN e = SUBSET (1..n) /\ e = [T \in SUBSET (1..n) |-> e[T]]
    OBVIOUS
  <2> HIDE DEF e
  <2>5. h = e
    BY <2>1, <2>3, <2>4
  <2> QED
    BY <2>5 DEF e
<1> QED
  BY <1>5, <1>6 DEF Folded

\* What it gives at each set of positions.
LEMMA FoldedStep ==
  ASSUME NEW X, NEW n \in Nat, NEW h \in [SUBSET (1..n) -> X], NEW T \in SUBSET (1..n), T # {}
  PROVE  h[T \ {Max(T)}] \in X /\ Max(T) \in 1..n
<1>1. T \in SUBSET (0..n)
  OBVIOUS
<1>2. Max(T) \in T
  BY <1>1, MaxIs
<1>3. T \ {Max(T)} \in SUBSET (1..n)
  OBVIOUS
<1> QED
  BY <1>2, <1>3

\* The same, as long as the results stay in X.
Follows(h, X, base, G, n) ==
  /\ h[{}] = base
  /\ \A T \in SUBSET (1..n) : T # {} /\ h[T \ {Max(T)}] \in X =>
       h[T] = G[<<h[T \ {Max(T)}], Max(T)>>]

\* What a fold runs through, whatever function follows its recursion on X.
Trace(f, X, base, G, n) ==
  /\ f \in [0..n -> X] /\ f[0] = base
  /\ \A i \in 1..n : f[i] = G[<<f[i - 1], i>>]

RunsThrough(h, X, base, G, n) == \E f : Trace(f, X, base, G, n) /\ f[n] = h[1..n]

\* Every function that follows the recursion runs through the same results.
LEMMA FoldTrace ==
  ASSUME NEW X, NEW base \in X, NEW n \in Nat, NEW G \in [X \X (1..n) -> X],
         NEW h, Follows(h, X, base, G, n)
  PROVE  RunsThrough(h, X, base, G, n)
<1> DEFINE S == {i \in 0..n : h[1..i] \in X}
           f == [i \in 0..n |-> h[1..i]]
<1>1. \A i \in 1..n : h[1..(i - 1)] \in X => h[1..i] = G[<<h[1..(i - 1)], i>>]
  BY PrefixMax DEF Follows
<1>2. 0 \in S /\ h[1..0] = base
  <2>1. 1..0 = {}
    OBVIOUS
  <2> QED
    BY <2>1 DEF Follows
<1>3. ASSUME NEW i \in 1..n, i - 1 \in S PROVE i \in S
  <2>1. h[1..(i - 1)] \in X
    BY <1>3
  <2>2. G[<<h[1..(i - 1)], i>>] \in X
    BY <2>1
  <2> QED
    BY <1>1, <2>1, <2>2
<1>4. \A i \in 0..n : i \in S
  <2> HIDE DEF S
  <2> QED
    BY <1>2, <1>3, UpTo
<1>5. f \in [0..n -> X]
  BY <1>4
<1>6. \A i \in 1..n : f[i] = G[<<f[i - 1], i>>]
  <2> SUFFICES ASSUME NEW i \in 1..n PROVE f[i] = G[<<f[i - 1], i>>]
    OBVIOUS
  <2>1. i \in 0..n /\ i - 1 \in 0..n
    OBVIOUS
  <2>2. f[i] = h[1..i] /\ f[i - 1] = h[1..(i - 1)]
    BY <2>1
  <2>3. h[1..(i - 1)] \in X
    BY <2>1, <1>4
  <2> QED
    BY <1>1, <2>2, <2>3
<1>7. f[0] = base /\ f[n] = h[1..n]
  BY <1>2
<1> HIDE DEF f
<1> QED
  BY <1>5, <1>6, <1>7 DEF Trace, RunsThrough

-----------------------------------------------------------------------------
(* The account of a loop: what begin_event, the orders of an event and the *)
(* reads of an age do to it.                                               *)

Trade == [time : Int, symbol : Names, qty : Int, price : Int, pre : Int]
Account == [cash : Int, keys : Seq(Names), pos : [Names -> Int], stop : [Names -> Int],
            last : [Names -> Int], dead : BOOLEAN, trades : Seq(Trade)]

\* A symbol that is not known yet becomes known, and nothing else changes.
LEMMA PositionForKeeps ==
  ASSUME NEW a \in Account, NEW s \in Names, NEW b, b = PositionFor(a, s)
  PROVE  /\ b \in Account
         /\ b.cash = a.cash /\ b.pos = a.pos /\ b.stop = a.stop /\ b.last = a.last
         /\ b.dead = a.dead /\ b.trades = a.trades
         /\ b.keys = IF Contains(a.keys, s) THEN a.keys ELSE Append(a.keys, s)
<1>1. CASE Contains(a.keys, s)
  BY <1>1 DEF PositionFor
<1>2. CASE ~Contains(a.keys, s)
  <2>1. b = [a EXCEPT !.keys = Append(@, s)]
    BY <1>2 DEF PositionFor
  <2>2. Append(a.keys, s) \in Seq(Names)
    BY DEF Account
  <2> QED
    BY <1>2, <2>1, <2>2 DEF Account
<1> QED
  BY <1>1, <1>2

\* A fill moves one position by its quantity.
LEMMA FillIs ==
  ASSUME NEW a \in Account, NEW t \in Int, NEW s \in Names, NEW q \in Int, NEW price \in Int,
         NEW b, b = Fill(a, t, s, q, price)
  PROVE  /\ b \in Account
         /\ b.pos = [a.pos EXCEPT ![s] = a.pos[s] + q]
         /\ b.stop = a.stop /\ b.last = a.last /\ b.dead = a.dead
<1> DEFINE k == PositionFor(a, s)
<1>1. /\ k \in Account
      /\ k.cash = a.cash /\ k.pos = a.pos /\ k.stop = a.stop /\ k.last = a.last
      /\ k.dead = a.dead /\ k.trades = a.trades
  BY PositionForKeeps
<1>2. b = [k EXCEPT !.cash = @ - q * price, !.pos[s] = @ + q,
     !.trades = Append(@, [time |-> t, symbol |-> s, qty |-> q, price |-> price,
                           pre |-> a.pos[s]])]
  BY DEF Fill
<1> HIDE DEF k
<1>3. q * price \in Int /\ a.pos[s] \in Int
  BY DEF Account
<1>4. [time |-> t, symbol |-> s, qty |-> q, price |-> price, pre |-> a.pos[s]] \in Trade
  BY <1>3 DEF Trade
<1>5. Append(k.trades, [time |-> t, symbol |-> s, qty |-> q, price |-> price, pre |-> a.pos[s]])
        \in Seq(Trade)
  BY <1>1, <1>4 DEF Account
<1>6. k.cash - q * price \in Int
  BY <1>1, <1>3 DEF Account
<1>7. [k.pos EXCEPT ![s] = k.pos[s] + q] \in [Names -> Int]
  BY <1>1 DEF Account
<1> DEFINE tr == Append(k.trades, [time |-> t, symbol |-> s, qty |-> q, price |-> price,
                                    pre |-> a.pos[s]])
           cs == k.cash - q * price
           ps == [k.pos EXCEPT ![s] = k.pos[s] + q]
<1>8. b = [cash |-> cs, keys |-> k.keys, pos |-> ps, stop |-> k.stop, last |-> k.last,
           dead |-> k.dead, trades |-> tr]
  BY <1>1, <1>2 DEF Account
<1>9. tr \in Seq(Trade) /\ cs \in Int /\ ps \in [Names -> Int]
  BY <1>5, <1>6, <1>7
<1>10. ps = [a.pos EXCEPT ![s] = a.pos[s] + q]
  BY <1>1
<1> HIDE DEF tr, cs, ps
<1> QED
  BY <1>1, <1>8, <1>9, <1>10 DEF Account

\* What an order that is filled adds to the position of s.
Moved(c, s) == IF c.kind = "market" /\ c.symbol = s THEN c.qty ELSE 0

\* An order moves the position of its symbol by its quantity or not at all.
LEMMA SubmitIs ==
  ASSUME NEW a \in Account, NEW t \in Int, NEW c \in Action
  PROVE  /\ Submit(a, t, c) \in Account
         /\ \A s \in Names : Submit(a, t, c).pos[s] \in {a.pos[s], a.pos[s] + Moved(c, s)}
<1> DEFINE b == Submit(a, t, c)
<1>1. /\ c.symbol \in Names /\ c.qty \in Int /\ c.level \in Int /\ c.kind \in {"market", "stop"}
      /\ a.pos \in [Names -> Int]
  BY DEF Action, Account
<1>2. CASE a.dead
  BY <1>2 DEF Submit
<1>3. CASE ~a.dead /\ c.kind = "stop"
  <2>1. b = [a EXCEPT !.stop[c.symbol] = c.level]
    BY <1>3 DEF Submit
  <2>2. [a.stop EXCEPT ![c.symbol] = c.level] \in [Names -> Int]
    BY <1>1 DEF Account
  <2> QED
    BY <2>1, <2>2 DEF Account
<1>4. CASE ~a.dead /\ c.kind # "stop" /\ (c.qty = 0 \/ a.last[c.symbol] = 0)
  BY <1>4 DEF Submit
<1>5. CASE ~a.dead /\ c.kind # "stop" /\ ~(c.qty = 0 \/ a.last[c.symbol] = 0)
  <2>1. b = Fill(a, t, c.symbol, c.qty, a.last[c.symbol])
    BY <1>5 DEF Submit
  <2>2. a.last[c.symbol] \in Int
    BY <1>1 DEF Account
  <2>3. b \in Account /\ b.pos = [a.pos EXCEPT ![c.symbol] = a.pos[c.symbol] + c.qty]
    BY <1>1, <2>1, <2>2, FillIs
  <2>4. ASSUME NEW s \in Names PROVE b.pos[s] = a.pos[s] + Moved(c, s)
    <3> HIDE DEF b
    <3>1. CASE s = c.symbol
      BY <1>1, <1>5, <2>3, <3>1 DEF Moved
    <3>2. CASE s # c.symbol
      <4>1. b.pos[s] = a.pos[s] /\ Moved(c, s) = 0 /\ a.pos[s] \in Int
        BY <1>1, <2>3, <3>2 DEF Moved
      <4> QED
        BY <4>1
    <3> QED
      BY <3>1, <3>2
  <2> QED
    BY <2>3, <2>4
<1> QED
  BY <1>2, <1>3, <1>4, <1>5

\* What begin_event does for one symbol.
LEMMA MatchOneIs ==
  ASSUME NEW a \in Account, NEW t \in Int, NEW s \in Names, NEW event,
         s \in DOMAIN event => event[s] \in Candle
  PROVE  MatchOne(a, t, s, event) \in Account
<1>1. CASE s \notin DOMAIN event
  BY <1>1 DEF MatchOne
<1>2. CASE s \in DOMAIN event
  <2> DEFINE c == event[s]
             x == [a EXCEPT !.last[s] = c.close]
  <2>1. c \in Candle /\ c.close \in Int /\ c.low \in Int /\ c.open \in Int
    BY <1>2 DEF Candle
  <2>2. MatchOne(a, t, s, event) = MatchStop(x, t, s, c)
    BY <1>2 DEF MatchOne
  <2>3. [a.last EXCEPT ![s] = c.close] \in [Names -> Int]
    BY <2>1 DEF Account
  <2>4. x \in Account
    BY <2>3 DEF Account
  <2> HIDE DEF c, x
  <2>5. x.stop[s] \in Int /\ x.pos[s] \in Int
    BY <2>4 DEF Account
  <2> DEFINE left == [x EXCEPT !.stop[s] = 0]
  <2>6. left \in Account
    <3>1. [x.stop EXCEPT ![s] = 0] \in [Names -> Int]
      BY <2>4 DEF Account
    <3> QED
      BY <2>4, <3>1 DEF Account
  <2> DEFINE price == IF c.open <= x.stop[s] THEN c.open ELSE x.stop[s]
  <2>7. price \in Int
    BY <2>1, <2>5
  <2>8. MatchStop(x, t, s, c) \in {x, PositionFor(left, s), Fill(left, t, s, -1, price)}
    BY DEF MatchStop
  <2> HIDE DEF left, price
  <2>9. PositionFor(left, s) \in Account
    BY <2>6, PositionForKeeps
  <2>10. Fill(left, t, s, -1, price) \in Account
    <3>1. -1 \in Int
      OBVIOUS
    <3> QED
      BY <2>6, <2>7, <3>1, FillIs
  <2> QED
    BY <2>2, <2>4, <2>8, <2>9, <2>10
<1> QED
  BY <1>1, <1>2

\* What a liquidation does for one symbol.
LEMMA FlattenIs ==
  ASSUME NEW a \in Account, NEW t \in Int, NEW s \in Names
  PROVE  Flatten(a, t, s) \in Account
<1>1. a.pos[s] \in Int /\ -a.pos[s] \in Int /\ a.last[s] \in Int
  BY DEF Account
<1>2. Fill(a, t, s, -a.pos[s], a.last[s]) \in Account
  BY <1>1, FillIs
<1> QED
  BY <1>2 DEF Flatten

\* The accounts a matching of stops runs through.
LEMMA MatchAllIs ==
  ASSUME NEW a \in Account, NEW t \in Int, NEW event,
         \A s \in DOMAIN event : event[s] \in Candle
  PROVE  MatchAll(a, t, event) \in Account
<1> DEFINE n == Len(Listed)
           G == [p \in Account \X (1..n) |-> MatchOne(p[1], t, Listed[p[2]], event)]
           By(h) == h = [T \in SUBSET (1..n) |->
                           IF T = {} THEN a
                           ELSE MatchOne(h[T \ {Max(T)}], t, Listed[Max(T)], event)]
<1>1. n \in Nat /\ DOMAIN Listed = 1..n /\ \A i \in 1..n : Listed[i] \in Names
  BY LoopAssumption, ElementOfSeq, LenProperties
<1>2. n \in Nat
  BY <1>1
<1>3. a \in Account
  OBVIOUS
<1>4. G \in [Account \X (1..n) -> Account]
  BY <1>1, MatchOneIs
<1>5. \A x \in Account, i \in 1..n : G[<<x, i>>] = MatchOne(x, t, Listed[i], event)
  OBVIOUS
<1>6. MatchAll(a, t, event) = (CHOOSE h : By(h))[1..n]
  BY <1>1 DEF MatchAll, FoldLeft, MapThenFoldSet
<1> HIDE DEF G, n
<1>7. PICK e \in [SUBSET (1..n) -> Account] : Folded(e, a, G, n)
  BY <1>2, <1>3, <1>4, FoldExists
<1>8. By(e)
  <2>1. e = [T \in SUBSET (1..n) |-> IF T = {} THEN a ELSE G[<<e[T \ {Max(T)}], Max(T)>>]]
    BY <1>7 DEF Folded
  <2>2. \A T \in SUBSET (1..n) : T # {} =>
          G[<<e[T \ {Max(T)}], Max(T)>>] = MatchOne(e[T \ {Max(T)}], t, Listed[Max(T)], event)
    BY <1>1, <1>5, <1>7, FoldedStep
  <2> QED
    BY <2>1, <2>2
<1>9. PICK h : h = (CHOOSE k : By(k)) /\ By(h)
  <2> HIDE DEF By
  <2> QED
    BY <1>8
<1>10. h[{}] = a
  BY <1>9
<1>11. ASSUME NEW T \in SUBSET (1..n), T # {}, h[T \ {Max(T)}] \in Account
      PROVE  h[T] = G[<<h[T \ {Max(T)}], Max(T)>>]
  <2>1. Max(T) \in 1..n
    <3>1. T \in SUBSET (0..n)
      OBVIOUS
    <3> QED
      BY <1>1, <1>11, <3>1, MaxIs
  <2>2. h[T] = MatchOne(h[T \ {Max(T)}], t, Listed[Max(T)], event)
    BY <1>9, <1>11
  <2> QED
    BY <1>5, <1>11, <2>1, <2>2
<1>12. PICK f : Trace(f, Account, a, G, n) /\ f[n] = h[1..n]
  <2> HIDE DEF By
  <2>1. Follows(h, Account, a, G, n)
    BY <1>10, <1>11 DEF Follows
  <2>2. RunsThrough(h, Account, a, G, n)
    BY <1>2, <1>3, <1>4, <2>1, FoldTrace
  <2> QED
    BY <2>2 DEF RunsThrough
<1>13. /\ f \in [0..n -> Account] /\ f[0] = a
       /\ \A i \in 1..n : f[i] = G[<<f[i - 1], i>>]
  BY <1>12 DEF Trace
<1>14. f[n] \in Account
  <2>1. n \in 0..n
    BY <1>2
  <2> QED
    BY <1>13, <2>1
<1> QED
  BY <1>6, <1>9, <1>12, <1>14

\* The accounts a liquidation runs through.
LEMMA FlattenAllIs ==
  ASSUME NEW a \in Account, NEW t \in Int, NEW keys \in Seq(Names)
  PROVE  FlattenAll(a, t, keys) \in Account
<1> DEFINE n == Len(keys)
           G == [p \in Account \X (1..n) |-> Flatten(p[1], t, keys[p[2]])]
           By(h) == h = [T \in SUBSET (1..n) |->
                           IF T = {} THEN a ELSE Flatten(h[T \ {Max(T)}], t, keys[Max(T)])]
<1>1. n \in Nat /\ DOMAIN keys = 1..n /\ \A i \in 1..n : keys[i] \in Names
  BY LoopAssumption, ElementOfSeq, LenProperties
<1>2. n \in Nat
  BY <1>1
<1>3. a \in Account
  OBVIOUS
<1>4. G \in [Account \X (1..n) -> Account]
  BY <1>1, FlattenIs
<1>5. \A x \in Account, i \in 1..n : G[<<x, i>>] = Flatten(x, t, keys[i])
  OBVIOUS
<1>6. FlattenAll(a, t, keys) = (CHOOSE h : By(h))[1..n]
  BY <1>1 DEF FlattenAll, FoldLeft, MapThenFoldSet
<1> HIDE DEF G, n
<1>7. PICK e \in [SUBSET (1..n) -> Account] : Folded(e, a, G, n)
  BY <1>2, <1>3, <1>4, FoldExists
<1>8. By(e)
  <2>1. e = [T \in SUBSET (1..n) |-> IF T = {} THEN a ELSE G[<<e[T \ {Max(T)}], Max(T)>>]]
    BY <1>7 DEF Folded
  <2>2. \A T \in SUBSET (1..n) : T # {} =>
          G[<<e[T \ {Max(T)}], Max(T)>>] = Flatten(e[T \ {Max(T)}], t, keys[Max(T)])
    BY <1>1, <1>5, <1>7, FoldedStep
  <2> QED
    BY <2>1, <2>2
<1>9. PICK h : h = (CHOOSE k : By(k)) /\ By(h)
  <2> HIDE DEF By
  <2> QED
    BY <1>8
<1>10. h[{}] = a
  BY <1>9
<1>11. ASSUME NEW T \in SUBSET (1..n), T # {}, h[T \ {Max(T)}] \in Account
      PROVE  h[T] = G[<<h[T \ {Max(T)}], Max(T)>>]
  <2>1. Max(T) \in 1..n
    <3>1. T \in SUBSET (0..n)
      OBVIOUS
    <3> QED
      BY <1>1, <1>11, <3>1, MaxIs
  <2>2. h[T] = Flatten(h[T \ {Max(T)}], t, keys[Max(T)])
    BY <1>9, <1>11
  <2> QED
    BY <1>5, <1>11, <2>1, <2>2
<1>12. PICK f : Trace(f, Account, a, G, n) /\ f[n] = h[1..n]
  <2> HIDE DEF By
  <2>1. Follows(h, Account, a, G, n)
    BY <1>10, <1>11 DEF Follows
  <2>2. RunsThrough(h, Account, a, G, n)
    BY <1>2, <1>3, <1>4, <2>1, FoldTrace
  <2> QED
    BY <2>2 DEF RunsThrough
<1>13. /\ f \in [0..n -> Account] /\ f[0] = a
       /\ \A i \in 1..n : f[i] = G[<<f[i - 1], i>>]
  BY <1>12 DEF Trace
<1>14. f[n] \in Account
  <2>1. n \in 0..n
    BY <1>2
  <2> QED
    BY <1>13, <2>1
<1> QED
  BY <1>6, <1>9, <1>12, <1>14

\* The accounts the actions of an event run through.
Submitting(f, a, t, actions) ==
  /\ f[0] = a
  /\ \A i \in 1..Len(actions) : f[i] = Submit(f[i - 1], t, actions[i])
  /\ SubmitAll(a, t, actions) = f[Len(actions)]

LEMMA SubmitTrace ==
  ASSUME NEW a \in Account, NEW t \in Int, NEW actions \in Seq(Action)
  PROVE  \E f \in [0..Len(actions) -> Account] : Submitting(f, a, t, actions)
<1> DEFINE n == Len(actions)
           G == [p \in Account \X (1..n) |-> Submit(p[1], t, actions[p[2]])]
           By(h) == h = [T \in SUBSET (1..n) |->
                           IF T = {} THEN a ELSE Submit(h[T \ {Max(T)}], t, actions[Max(T)])]
<1>1. n \in Nat /\ DOMAIN actions = 1..n /\ \A i \in 1..n : actions[i] \in Action
  BY LoopAssumption, ElementOfSeq, LenProperties
<1>2. n \in Nat
  BY <1>1
<1>3. a \in Account
  OBVIOUS
<1>4. G \in [Account \X (1..n) -> Account]
  BY <1>1, SubmitIs
<1>5. \A x \in Account, i \in 1..n : G[<<x, i>>] = Submit(x, t, actions[i])
  OBVIOUS
<1>6. SubmitAll(a, t, actions) = (CHOOSE h : By(h))[1..n]
  BY <1>1 DEF SubmitAll, FoldLeft, MapThenFoldSet
<1> HIDE DEF G, n
<1>7. PICK e \in [SUBSET (1..n) -> Account] : Folded(e, a, G, n)
  BY <1>2, <1>3, <1>4, FoldExists
<1>8. By(e)
  <2>1. e = [T \in SUBSET (1..n) |-> IF T = {} THEN a ELSE G[<<e[T \ {Max(T)}], Max(T)>>]]
    BY <1>7 DEF Folded
  <2>2. \A T \in SUBSET (1..n) : T # {} =>
          G[<<e[T \ {Max(T)}], Max(T)>>] = Submit(e[T \ {Max(T)}], t, actions[Max(T)])
    BY <1>1, <1>5, <1>7, FoldedStep
  <2> QED
    BY <2>1, <2>2
<1>9. PICK h : h = (CHOOSE k : By(k)) /\ By(h)
  <2> HIDE DEF By
  <2> QED
    BY <1>8
<1>10. h[{}] = a
  BY <1>9
<1>11. ASSUME NEW T \in SUBSET (1..n), T # {}, h[T \ {Max(T)}] \in Account
      PROVE  h[T] = G[<<h[T \ {Max(T)}], Max(T)>>]
  <2>1. Max(T) \in 1..n
    <3>1. T \in SUBSET (0..n)
      OBVIOUS
    <3> QED
      BY <1>1, <1>11, <3>1, MaxIs
  <2>2. h[T] = Submit(h[T \ {Max(T)}], t, actions[Max(T)])
    BY <1>9, <1>11
  <2> QED
    BY <1>5, <1>11, <2>1, <2>2
<1>12. PICK f : Trace(f, Account, a, G, n) /\ f[n] = h[1..n]
  <2> HIDE DEF By
  <2>1. Follows(h, Account, a, G, n)
    BY <1>10, <1>11 DEF Follows
  <2>2. RunsThrough(h, Account, a, G, n)
    BY <1>2, <1>3, <1>4, <2>1, FoldTrace
  <2> QED
    BY <2>2 DEF RunsThrough
<1>13. /\ f \in [0..n -> Account] /\ f[0] = a
       /\ \A i \in 1..n : f[i] = G[<<f[i - 1], i>>]
  BY <1>12 DEF Trace
<1>14. \A i \in 1..n : f[i] = Submit(f[i - 1], t, actions[i])
  <2> SUFFICES ASSUME NEW i \in 1..n PROVE f[i] = Submit(f[i - 1], t, actions[i])
    OBVIOUS
  <2>1. f[i - 1] \in Account
    <3>1. i - 1 \in 0..n
      BY <1>1
    <3> QED
      BY <1>13, <3>1
  <2> QED
    BY <1>5, <1>13, <2>1
<1>15. SubmitAll(a, t, actions) = f[n]
  BY <1>6, <1>9, <1>12
<1> QED
  BY <1>13, <1>14, <1>15 DEF n, Submitting

\* The accounts the ages of an event run through.
Touching(f, a, asked, order) ==
  /\ f[0] = a
  /\ \A i \in 1..Len(order) : f[i] = Touch(f[i - 1], asked, order[i])
  /\ TouchedBy(a, asked, order) = f[Len(order)]

\* There are such accounts.
LEMMA TouchTrace ==
  ASSUME NEW a \in Account, NEW asked, NEW order \in Seq(Names)
  PROVE  \E f \in [0..Len(order) -> Account] : Touching(f, a, asked, order)
<1> DEFINE n == Len(order)
           G == [p \in Account \X (1..n) |-> Touch(p[1], asked, order[p[2]])]
           By(h) == h = [T \in SUBSET (1..n) |->
                           IF T = {} THEN a ELSE Touch(h[T \ {Max(T)}], asked, order[Max(T)])]
<1>1. n \in Nat /\ DOMAIN order = 1..n /\ \A i \in 1..n : order[i] \in Names
  BY LoopAssumption, ElementOfSeq, LenProperties
<1>2. n \in Nat
  BY <1>1
<1>3. a \in Account
  OBVIOUS
<1>4. G \in [Account \X (1..n) -> Account]
  BY <1>1, PositionForKeeps DEF Touch
<1>5. \A x \in Account, i \in 1..n : G[<<x, i>>] = Touch(x, asked, order[i])
  OBVIOUS
<1>6. TouchedBy(a, asked, order) = (CHOOSE h : By(h))[1..n]
  BY <1>1 DEF TouchedBy, FoldLeft, MapThenFoldSet
<1> HIDE DEF G, n
<1>7. PICK e \in [SUBSET (1..n) -> Account] : Folded(e, a, G, n)
  BY <1>2, <1>3, <1>4, FoldExists
<1>8. By(e)
  <2>1. e = [T \in SUBSET (1..n) |-> IF T = {} THEN a ELSE G[<<e[T \ {Max(T)}], Max(T)>>]]
    BY <1>7 DEF Folded
  <2>2. \A T \in SUBSET (1..n) : T # {} =>
          G[<<e[T \ {Max(T)}], Max(T)>>] = Touch(e[T \ {Max(T)}], asked, order[Max(T)])
    BY <1>1, <1>5, <1>7, FoldedStep
  <2> QED
    BY <2>1, <2>2
<1>9. PICK h : h = (CHOOSE k : By(k)) /\ By(h)
  <2> HIDE DEF By
  <2> QED
    BY <1>8
<1>10. h[{}] = a
  BY <1>9
<1>11. ASSUME NEW T \in SUBSET (1..n), T # {}, h[T \ {Max(T)}] \in Account
      PROVE  h[T] = G[<<h[T \ {Max(T)}], Max(T)>>]
  <2>1. Max(T) \in 1..n
    <3>1. T \in SUBSET (0..n)
      OBVIOUS
    <3> QED
      BY <1>1, <1>11, <3>1, MaxIs
  <2>2. h[T] = Touch(h[T \ {Max(T)}], asked, order[Max(T)])
    BY <1>9, <1>11
  <2> QED
    BY <1>5, <1>11, <2>1, <2>2
<1>12. PICK f : Trace(f, Account, a, G, n) /\ f[n] = h[1..n]
  <2> HIDE DEF By
  <2>1. Follows(h, Account, a, G, n)
    BY <1>10, <1>11 DEF Follows
  <2>2. RunsThrough(h, Account, a, G, n)
    BY <1>2, <1>3, <1>4, <2>1, FoldTrace
  <2> QED
    BY <2>2 DEF RunsThrough
<1>13. /\ f \in [0..n -> Account] /\ f[0] = a
       /\ \A i \in 1..n : f[i] = G[<<f[i - 1], i>>]
  BY <1>12 DEF Trace
<1>14. \A i \in 1..n : f[i] = Touch(f[i - 1], asked, order[i])
  <2> SUFFICES ASSUME NEW i \in 1..n PROVE f[i] = Touch(f[i - 1], asked, order[i])
    OBVIOUS
  <2>1. f[i - 1] \in Account
    <3>1. i - 1 \in 0..n
      BY <1>1
    <3> QED
      BY <1>13, <3>1
  <2> QED
    BY <1>5, <1>13, <2>1
<1>15. TouchedBy(a, asked, order) = f[n]
  BY <1>6, <1>9, <1>12
<1> QED
  BY <1>13, <1>14, <1>15 DEF n, Touching

-----------------------------------------------------------------------------
(* The merge of the candles into events, and one event of the live loop.   *)

Cursors == [Names -> Nat \ {0}]

\* The candles a head points to.
LEMMA NextCandles ==
  ASSUME NEW head \in Cursors, market \in Markets
  PROVE  /\ Waiting(head) \subseteq Names
         /\ \A s \in Waiting(head) :
              market[s][head[s]] \in Candle /\ market[s][head[s]].end \in Nat
<1>1. market \in [Names -> Seq(Candle)]
  BY LoopAssumption
<1>2. ASSUME NEW s \in Waiting(head)
      PROVE  market[s][head[s]] \in Candle /\ market[s][head[s]].end \in Nat
  <2>1. s \in Names /\ head[s] <= Len(market[s])
    BY DEF Waiting
  <2>2. market[s] \in Seq(Candle) /\ head[s] \in Nat \ {0}
    BY <1>1, <2>1 DEF Cursors
  <2>3. head[s] \in 1..Len(market[s])
    BY <2>1, <2>2
  <2>4. market[s][head[s]] \in Candle
    BY <2>2, <2>3
  <2> QED
    BY <2>4 DEF Candle
<1> QED
  BY <1>2 DEF Waiting

\* An event has the candles that close next, and there are some while any are left.
LEMMA NextEvent ==
  ASSUME NEW head \in Cursors, market \in Markets, Waiting(head) # {}
  PROVE  /\ NextTime(head) \in Nat
         /\ Batch(head) # {} /\ Batch(head) \subseteq Names
         /\ DOMAIN Event(head) = Batch(head)
         /\ \A s \in Batch(head) :
              /\ Event(head)[s] = market[s][head[s]]
              /\ Event(head)[s] \in Candle
              /\ head[s] <= Len(market[s])
         /\ Advanced(head) \in Cursors
<1> DEFINE T == {market[s][head[s]].end : s \in Waiting(head)}
<1>1. T \in SUBSET Nat /\ T # {}
  BY NextCandles
<1>2. \E t \in T : \A u \in T : t <= u
  <2> HIDE DEF T
  <2> QED
    BY <1>1, LeastOf
<1>3. \E t \in T : \A s \in Waiting(head) : t <= market[s][head[s]].end
  BY <1>2
<1>4. NextTime(head) \in T
  BY <1>3 DEF NextTime
<1>5. PICK s \in Waiting(head) : market[s][head[s]].end = NextTime(head)
  BY <1>4
<1>6. Batch(head) # {} /\ NextTime(head) \in Nat
  BY <1>1, <1>4, <1>5 DEF Batch
<1>7. Batch(head) \subseteq Waiting(head)
  BY DEF Batch
<1>8. /\ DOMAIN Event(head) = Batch(head)
      /\ \A r \in Batch(head) : Event(head)[r] = market[r][head[r]]
  BY DEF Event
<1>9. Advanced(head) \in Cursors
  BY DEF Advanced, Cursors
<1>10. \A r \in Batch(head) : head[r] <= Len(market[r])
  BY <1>7 DEF Waiting
<1> QED
  BY <1>6, <1>7, <1>8, <1>9, <1>10, NextCandles

\* begin_event: the stops, and a liquidation.
LEMMA BeginEventIs ==
  ASSUME NEW a \in Account, NEW t \in Int, NEW event,
         \A s \in DOMAIN event : event[s] \in Candle
  PROVE  BeginEvent(a, t, event) \in Account
<1> DEFINE matched == MatchAll(a, t, event)
<1>1. matched \in Account
  BY MatchAllIs
<1>2. BeginEvent(a, t, event) = IF ~matched.dead /\ Equity(matched) <= 0
                                THEN Liquidate(matched, t) ELSE matched
  BY DEF BeginEvent
<1> HIDE DEF matched
<1> DEFINE dying == [matched EXCEPT !.dead = TRUE, !.stop = [s \in Names |-> 0]]
<1>3. dying \in Account /\ matched.keys = dying.keys
  <2>1. [s \in Names |-> 0] \in [Names -> Int]
    OBVIOUS
  <2> QED
    BY <1>1, <2>1 DEF Account
<1>4. Liquidate(matched, t) = FlattenAll(dying, t, matched.keys)
  BY DEF Liquidate
<1> HIDE DEF dying
<1>5. Liquidate(matched, t) \in Account
  <2>1. PICK keys : keys = matched.keys
    OBVIOUS
  <2>2. keys \in Seq(Names)
    BY <1>1, <2>1 DEF Account
  <2>3. FlattenAll(dying, t, keys) \in Account
    BY <1>3, <2>2, FlattenAllIs
  <2> QED
    BY <1>4, <2>1, <2>3
<1> QED
  BY <1>1, <1>2, <1>5

\* The age of an event changes no position.
LEMMA TouchedByIs ==
  ASSUME NEW a \in Account, NEW asked, NEW order \in Seq(Names),
         NEW b, b = TouchedBy(a, asked, order)
  PROVE  /\ b \in Account
         /\ b.cash = a.cash /\ b.pos = a.pos /\ b.stop = a.stop /\ b.last = a.last
         /\ b.dead = a.dead /\ b.trades = a.trades
<1> DEFINE n == Len(order)
<1>1. PICK f \in [0..n -> Account] : Touching(f, a, asked, order)
  BY TouchTrace
<1>2. f[0] = a /\ b = f[n] /\ \A i \in 1..n : f[i] = Touch(f[i - 1], asked, order[i])
  BY <1>1 DEF Touching
<1> DEFINE Same(x) == /\ x.cash = a.cash /\ x.pos = a.pos /\ x.stop = a.stop
                      /\ x.last = a.last /\ x.dead = a.dead /\ x.trades = a.trades
           S == {i \in 0..n : Same(f[i])}
<1>3. n \in Nat /\ \A i \in 1..n : order[i] \in Names
  BY ElementOfSeq, LenProperties
<1>4. 0 \in S
  BY <1>2, <1>3
<1>5. ASSUME NEW i \in 1..n, i - 1 \in S PROVE i \in S
  <2>1. i - 1 \in 0..n /\ i \in 0..n
    BY <1>3
  <2>2. f[i - 1] \in Account /\ Same(f[i - 1])
    BY <1>5, <2>1
  <2>3. Same(PositionFor(f[i - 1], order[i]))
    <3>1. order[i] \in Names
      BY <1>3
    <3> QED
      BY <2>2, <3>1, PositionForKeeps
  <2>4. Same(f[i])
    BY <1>2, <2>2, <2>3 DEF Touch
  <2> QED
    BY <2>1, <2>4
<1>6. n \in S
  <2> HIDE DEF S, n
  <2>1. \A i \in 0..n : i \in S
    BY <1>3, <1>4, <1>5, UpTo
  <2> QED
    BY <1>3, <2>1
<1> QED
  BY <1>2, <1>3, <1>6

\* What the account of the live loop becomes.
LEMMA LiveLoopIs ==
  ASSUME NEW loop, loop.head \in Cursors, loop.acct \in Account, market \in Markets,
         Waiting(loop.head) # {}, NEW actions \in Seq(Action)
  PROVE  /\ LiveLoop(loop, actions).head \in Cursors
         /\ LiveLoop(loop, actions).acct \in Account
         /\ Begun(loop) \in Account
         /\ \E x \in Account : /\ x.pos = Begun(loop).pos
                               /\ LiveLoop(loop, actions).acct =
                                    SubmitAll(x, NextTime(loop.head), actions)
<1> DEFINE t == NextTime(loop.head)
           event == Event(loop.head)
           b == Begun(loop)
<1>1. t \in Nat /\ (\A s \in DOMAIN event : event[s] \in Candle) /\ Advanced(loop.head) \in Cursors
  BY NextEvent
<1>2. b \in Account
  BY <1>1, BeginEventIs DEF Begun
<1> DEFINE x == TouchedBy(b, Asked(event), Streamed)
<1>3. x \in Account /\ x.pos = b.pos
  <2>1. Streamed \in Seq(Names)
    BY LoopAssumption
  <2> QED
    BY <1>2, <2>1, TouchedByIs
<1>4. /\ LiveLoop(loop, actions).head = Advanced(loop.head)
      /\ LiveLoop(loop, actions).acct = SubmitAll(x, t, actions)
  BY DEF LiveLoop
<1> HIDE DEF x, t, b
<1>5. SubmitAll(x, t, actions) \in Account
  <2>1. t \in Int
    BY <1>1
  <2>2. PICK f \in [0..Len(actions) -> Account] : Submitting(f, x, t, actions)
    BY <1>3, <2>1, SubmitTrace
  <2>3. Len(actions) \in Nat /\ Len(actions) \in 0..Len(actions)
    OBVIOUS
  <2> QED
    BY <2>2, <2>3 DEF Submitting
<1> QED
  BY <1>1, <1>2, <1>3, <1>4, <1>5 DEF t, b

-----------------------------------------------------------------------------
(* What the engine keeps of the actions of a late event, and what it does  *)
(* to a position however many of these orders the exchange refuses.        *)

LateState == [kept : Seq(Action), tracked : [Names -> Int]]

\* What an order of a late event is cut to.
Cut(a, c, b) ==
  \/ b = a
  \/ /\ c.kind # "market" \/ c.qty = 0
     /\ b.kept = Append(a.kept, c) /\ b.tracked = a.tracked
  \/ \E d \in Action :
       /\ d.kind = "market" /\ b.kept = Append(a.kept, d)
       /\ b.tracked = [a.tracked EXCEPT ![d.symbol] = a.tracked[d.symbol] + d.qty]
       /\ Between(a.tracked[d.symbol] + d.qty, a.tracked[d.symbol])

LEMMA LateStepIs ==
  ASSUME NEW a \in LateState, NEW c \in Action, NEW b, b = LateStep(a, c)
  PROVE  b \in LateState /\ Cut(a, c, b)
<1>1. c.symbol \in Names /\ c.qty \in Int /\ c.level \in Int /\ c.kind \in {"market", "stop"}
  BY DEF Action
<1> DEFINE pos == a.tracked[c.symbol]
           q == IF Abs(c.qty) > Abs(pos) THEN -pos ELSE c.qty
           d == [c EXCEPT !.qty = IF Abs(@) > Abs(pos) THEN -pos ELSE @]
<1>2. pos \in Int /\ q \in Int
  BY <1>1 DEF LateState
<1>3. d = [kind |-> c.kind, symbol |-> c.symbol, qty |-> q, level |-> c.level] /\ d \in Action
  BY <1>1, <1>2 DEF Action
<1>4. CASE c.kind # "market" \/ c.qty = 0
  <2>1. b = [a EXCEPT !.kept = Append(@, c)]
    BY <1>4 DEF LateStep
  <2>2. Append(a.kept, c) \in Seq(Action)
    BY DEF LateState
  <2> QED
    BY <1>4, <2>1, <2>2 DEF LateState, Cut
<1>5. CASE ~(c.kind # "market" \/ c.qty = 0) /\ (pos = 0 \/ SameSide(pos, c.qty))
  <2>1. b = a
    BY <1>5 DEF LateStep
  <2> QED
    BY <2>1 DEF Cut
<1>6. CASE ~(c.kind # "market" \/ c.qty = 0) /\ ~(pos = 0 \/ SameSide(pos, c.qty))
  <2>1. b = [kept |-> Append(a.kept, d),
             tracked |-> [a.tracked EXCEPT ![c.symbol] = pos + d.qty]]
    BY <1>6 DEF LateStep
  <2>2. d.symbol = c.symbol /\ d.qty = q /\ d.kind = "market"
    BY <1>3, <1>6
  <2>3. Between(pos + q, pos)
    BY <1>1, <1>2, <1>6 DEF Between, SameSide, Abs
  <2> HIDE DEF q, d, pos
  <2>4. [a.tracked EXCEPT ![c.symbol] = pos + q] \in [Names -> Int]
    <3>1. PICK k : k = pos + q
      OBVIOUS
    <3>2. k \in Int
      BY <1>2, <3>1
    <3>3. a.tracked \in [Names -> Int]
      BY DEF LateState
    <3>4. [a.tracked EXCEPT ![c.symbol] = k] \in [Names -> Int]
      BY <3>2, <3>3
    <3> QED
      BY <3>1, <3>4
  <2>5. Append(a.kept, d) \in Seq(Action)
    BY <1>3 DEF LateState
  <2>6. b \in LateState
    BY <2>1, <2>2, <2>4, <2>5 DEF LateState
  <2>7. /\ b.kept = Append(a.kept, d)
        /\ b.tracked = [a.tracked EXCEPT ![d.symbol] = a.tracked[d.symbol] + d.qty]
        /\ Between(a.tracked[d.symbol] + d.qty, a.tracked[d.symbol])
    BY <2>1, <2>2, <2>3 DEF pos
  <2> QED
    BY <1>3, <2>2, <2>6, <2>7 DEF Cut
<1> QED
  BY <1>4, <1>5, <1>6

\* The states the filter of a late event runs through.
LEMMA LateTrace ==
  ASSUME NEW a \in LateState, NEW actions \in Seq(Action)
  PROVE  \E f \in [0..Len(actions) -> LateState] :
           /\ f[0] = a
           /\ \A i \in 1..Len(actions) : f[i] = LateStep(f[i - 1], actions[i])
           /\ FoldLeft(LateStep, a, actions) = f[Len(actions)]
<1> DEFINE n == Len(actions)
           G == [p \in LateState \X (1..n) |-> LateStep(p[1], actions[p[2]])]
           By(h) == h = [T \in SUBSET (1..n) |->
                           IF T = {} THEN a ELSE LateStep(h[T \ {Max(T)}], actions[Max(T)])]
<1>1. n \in Nat /\ DOMAIN actions = 1..n /\ \A i \in 1..n : actions[i] \in Action
  BY LoopAssumption, ElementOfSeq, LenProperties
<1>2. n \in Nat
  BY <1>1
<1>3. a \in LateState
  OBVIOUS
<1>4. G \in [LateState \X (1..n) -> LateState]
  BY <1>1, LateStepIs
<1>5. \A x \in LateState, i \in 1..n : G[<<x, i>>] = LateStep(x, actions[i])
  OBVIOUS
<1>6. FoldLeft(LateStep, a, actions) = (CHOOSE h : By(h))[1..n]
  BY <1>1 DEF FoldLeft, MapThenFoldSet
<1> HIDE DEF G, n
<1>7. PICK e \in [SUBSET (1..n) -> LateState] : Folded(e, a, G, n)
  BY <1>2, <1>3, <1>4, FoldExists
<1>8. By(e)
  <2>1. e = [T \in SUBSET (1..n) |-> IF T = {} THEN a ELSE G[<<e[T \ {Max(T)}], Max(T)>>]]
    BY <1>7 DEF Folded
  <2>2. \A T \in SUBSET (1..n) : T # {} =>
          G[<<e[T \ {Max(T)}], Max(T)>>] = LateStep(e[T \ {Max(T)}], actions[Max(T)])
    BY <1>1, <1>5, <1>7, FoldedStep
  <2> QED
    BY <2>1, <2>2
<1>9. PICK h : h = (CHOOSE k : By(k)) /\ By(h)
  <2> HIDE DEF By
  <2> QED
    BY <1>8
<1>10. h[{}] = a
  BY <1>9
<1>11. ASSUME NEW T \in SUBSET (1..n), T # {}, h[T \ {Max(T)}] \in LateState
      PROVE  h[T] = G[<<h[T \ {Max(T)}], Max(T)>>]
  <2>1. Max(T) \in 1..n
    <3>1. T \in SUBSET (0..n)
      OBVIOUS
    <3> QED
      BY <1>1, <1>11, <3>1, MaxIs
  <2>2. h[T] = LateStep(h[T \ {Max(T)}], actions[Max(T)])
    BY <1>9, <1>11
  <2> QED
    BY <1>5, <1>11, <2>1, <2>2
<1>12. PICK f : Trace(f, LateState, a, G, n) /\ f[n] = h[1..n]
  <2> HIDE DEF By
  <2>1. Follows(h, LateState, a, G, n)
    BY <1>10, <1>11 DEF Follows
  <2>2. RunsThrough(h, LateState, a, G, n)
    BY <1>2, <1>3, <1>4, <2>1, FoldTrace
  <2> QED
    BY <2>2 DEF RunsThrough
<1>13. /\ f \in [0..n -> LateState] /\ f[0] = a
       /\ \A i \in 1..n : f[i] = G[<<f[i - 1], i>>]
  BY <1>12 DEF Trace
<1>14. \A i \in 1..n : f[i] = LateStep(f[i - 1], actions[i])
  <2> SUFFICES ASSUME NEW i \in 1..n PROVE f[i] = LateStep(f[i - 1], actions[i])
    OBVIOUS
  <2>1. f[i - 1] \in LateState
    <3>1. i - 1 \in 0..n
      BY <1>1
    <3> QED
      BY <1>13, <3>1
  <2> QED
    BY <1>5, <1>13, <2>1
<1>15. FoldLeft(LateStep, a, actions) = f[n]
  BY <1>6, <1>9, <1>12
<1> QED
  BY <1>13, <1>14, <1>15 DEF n

\* The positions the kept orders would leave, one after the other: each is
\* between the one before and nothing.
Shrinks(e, kept, from, to) ==
  /\ e \in [0..Len(kept) -> [Names -> Int]]
  /\ e[0] = from /\ e[Len(kept)] = to
  /\ \A j \in 1..Len(kept), s \in Names :
       /\ Between(e[j][s], e[j - 1][s])
       /\ e[j][s] = e[j - 1][s] + Moved(kept[j], s)

\* One kept order more.
LEMMA ShrinksMore ==
  ASSUME NEW kept \in Seq(Action), NEW from, NEW to \in [Names -> Int],
         NEW e, Shrinks(e, kept, from, to),
         NEW d \in Action, NEW more, more = Append(kept, d), NEW next \in [Names -> Int],
         \A s \in Names : Between(next[s], to[s]) /\ next[s] = to[s] + Moved(d, s)
  PROVE  \E g : Shrinks(g, more, from, next)
<1> DEFINE n == Len(kept)
           g == [j \in 0..Len(more) |-> IF j <= n THEN e[j] ELSE next]
<1>1. n \in Nat /\ Len(more) = n + 1 /\ more[n + 1] = d /\ \A j \in 1..n : more[j] = kept[j]
  OBVIOUS
<1>2. /\ e \in [0..n -> [Names -> Int]] /\ e[0] = from /\ e[n] = to
      /\ \A j \in 1..n, s \in Names :
           Between(e[j][s], e[j - 1][s]) /\ e[j][s] = e[j - 1][s] + Moved(kept[j], s)
  BY DEF Shrinks
<1> HIDE DEF n
<1>3. \A j \in 0..Len(more) : j <= n => j \in 0..n
  BY <1>1
<1>4. g \in [0..Len(more) -> [Names -> Int]]
  BY <1>1, <1>2, <1>3
<1>5. g[0] = from /\ g[Len(more)] = next
  BY <1>1, <1>2
<1>6. ASSUME NEW j \in 1..Len(more), NEW s \in Names
      PROVE  Between(g[j][s], g[j - 1][s]) /\ g[j][s] = g[j - 1][s] + Moved(more[j], s)
  <2>1. j - 1 \in 0..n /\ j \in 0..Len(more) /\ j - 1 \in 0..Len(more)
    BY <1>1
  <2>2. g[j - 1] = e[j - 1]
    BY <2>1
  <2>3. CASE j <= n
    <3>1. j \in 1..n /\ g[j] = e[j]
      BY <2>1, <2>3
    <3> HIDE DEF g
    <3> QED
      BY <1>1, <1>2, <2>2, <3>1
  <2>4. CASE j = n + 1
    <3>1. g[j] = next /\ g[j - 1] = to
      BY <1>1, <1>2, <2>1, <2>4
    <3> HIDE DEF g
    <3> QED
      BY <1>1, <2>4, <3>1
  <2> QED
    BY <1>1, <2>1, <2>3, <2>4
<1> HIDE DEF g
<1>7. Shrinks(g, more, from, next)
  BY <1>4, <1>5, <1>6 DEF Shrinks
<1> QED
  BY <1>7

\* What one order of a late event adds to that.
LEMMA LateStepShrinks ==
  ASSUME NEW a \in LateState, NEW c \in Action, NEW b, b = LateStep(a, c),
         NEW from, \E e : Shrinks(e, a.kept, from, a.tracked)
  PROVE  \E e : Shrinks(e, b.kept, from, b.tracked)
<1>1. PICK e : Shrinks(e, a.kept, from, a.tracked)
  OBVIOUS
<1>2. PICK kept, to : kept = a.kept /\ to = a.tracked
  OBVIOUS
<1>3. kept \in Seq(Action) /\ to \in [Names -> Int] /\ Shrinks(e, kept, from, to)
  BY <1>1, <1>2 DEF LateState
<1>4. PICK more, next : more = b.kept /\ next = b.tracked
  OBVIOUS
<1>5. b \in LateState
  BY LateStepIs
<1>6. next \in [Names -> Int]
  BY <1>4, <1>5 DEF LateState
<1>7. CASE b = a
  BY <1>1, <1>7
<1>8. CASE /\ c.kind # "market" \/ c.qty = 0
           /\ b.kept = Append(a.kept, c) /\ b.tracked = a.tracked
  <2>1. \A s \in Names : Moved(c, s) = 0
    BY <1>8 DEF Moved
  <2>2. \A s \in Names : Between(next[s], to[s]) /\ next[s] = to[s] + Moved(c, s)
    BY <1>2, <1>3, <1>4, <1>8, <2>1 DEF Between
  <2>3. more = Append(kept, c)
    BY <1>2, <1>4, <1>8
  <2>4. \E g : Shrinks(g, more, from, next)
    BY <1>3, <1>6, <2>2, <2>3, ShrinksMore
  <2> QED
    BY <1>4, <2>4
<1>9. ASSUME NEW d \in Action,
             d.kind = "market", b.kept = Append(a.kept, d),
             b.tracked = [a.tracked EXCEPT ![d.symbol] = a.tracked[d.symbol] + d.qty],
             Between(a.tracked[d.symbol] + d.qty, a.tracked[d.symbol])
      PROVE  \E g : Shrinks(g, b.kept, from, b.tracked)
  <2>1. d.symbol \in Names /\ d.qty \in Int
    BY DEF Action
  <2>2. ASSUME NEW s \in Names PROVE Between(next[s], to[s]) /\ next[s] = to[s] + Moved(d, s)
    <3>1. CASE s = d.symbol
      BY <1>2, <1>3, <1>4, <1>9, <2>1, <3>1 DEF Moved
    <3>2. CASE s # d.symbol
      BY <1>2, <1>3, <1>4, <1>9, <2>1, <3>2 DEF Moved, Between
    <3> QED
      BY <3>1, <3>2
  <2>3. more = Append(kept, d)
    BY <1>2, <1>4, <1>9
  <2>4. \E g : Shrinks(g, more, from, next)
    BY <1>3, <1>6, <2>2, <2>3, ShrinksMore
  <2> QED
    BY <1>4, <2>4
<1>10. Cut(a, c, b)
  BY LateStepIs
<1> QED
  BY <1>7, <1>8, <1>9, <1>10 DEF Cut

\* What is kept of a late event's actions.
LEMMA KeptShrinks ==
  ASSUME NEW acct \in Account, NEW actions \in Seq(Action),
         NEW kept, kept = DropExposureIncrease(actions, acct)
  PROVE  kept \in Seq(Action) /\ \E e, to : Shrinks(e, kept, acct.pos, to)
<1> DEFINE n == Len(actions)
<1>1. PICK base : base = [kept |-> <<>>, tracked |-> acct.pos]
  OBVIOUS
<1>2. base \in LateState /\ base.kept = <<>> /\ base.tracked = acct.pos
  BY <1>1 DEF LateState, Account
<1>3. PICK f \in [0..n -> LateState] :
        /\ f[0] = base
        /\ \A i \in 1..n : f[i] = LateStep(f[i - 1], actions[i])
        /\ FoldLeft(LateStep, base, actions) = f[n]
  BY <1>2, LateTrace
<1>4. kept = f[n].kept
  BY <1>1, <1>3 DEF DropExposureIncrease
<1> DEFINE S == {i \in 0..n : \E e : Shrinks(e, f[i].kept, acct.pos, f[i].tracked)}
<1>5. n \in Nat /\ \A i \in 1..n : actions[i] \in Action
  BY ElementOfSeq, LenProperties
<1>6. 0 \in S
  <2> DEFINE e == [j \in 0..0 |-> acct.pos]
  <2>1. acct.pos \in [Names -> Int]
    BY DEF Account
  <2>2. Shrinks(e, <<>>, acct.pos, acct.pos)
    BY <2>1 DEF Shrinks
  <2> HIDE DEF e
  <2> QED
    BY <1>2, <1>3, <1>5, <2>2
<1>7. ASSUME NEW i \in 1..n, i - 1 \in S PROVE i \in S
  <2>1. i \in 0..n /\ i - 1 \in 0..n
    BY <1>5
  <2>2. PICK a, b : a = f[i - 1] /\ b = f[i]
    OBVIOUS
  <2>3. a \in LateState /\ actions[i] \in Action /\ b = LateStep(a, actions[i])
    BY <1>3, <1>5, <2>1, <2>2
  <2>4. \E e : Shrinks(e, a.kept, acct.pos, a.tracked)
    BY <1>7, <2>2
  <2>5. \E e : Shrinks(e, b.kept, acct.pos, b.tracked)
    BY <2>3, <2>4, LateStepShrinks
  <2> QED
    BY <2>1, <2>2, <2>5
<1>8. n \in S
  <2> HIDE DEF S, n
  <2>1. \A i \in 0..n : i \in S
    BY <1>5, <1>6, <1>7, UpTo
  <2> QED
    BY <1>5, <2>1
<1>9. f[n] \in LateState
  BY <1>5, <1>3
<1> QED
  BY <1>4, <1>8, <1>9 DEF LateState

\* Whatever part of the kept orders is filled, the position stays between what it
\* was and what all of them would leave.
LEMMA FilledShrinks ==
  ASSUME NEW x \in Account, NEW t \in Int, NEW kept \in Seq(Action),
         NEW e, NEW to, Shrinks(e, kept, x.pos, to),
         NEW sent \in Seq(Action), Len(sent) = Len(kept),
         \A i \in 1..Len(kept) : sent[i] = kept[i] \/ (sent[i].kind = "market" /\ sent[i].qty = 0),
         NEW s \in Names
  PROVE  Between(SubmitAll(x, t, sent).pos[s], x.pos[s])
<1> DEFINE n == Len(sent)
           p == x.pos[s]
<1>1. PICK f \in [0..n -> Account] : Submitting(f, x, t, sent)
  BY SubmitTrace
<1>2. /\ f[0] = x /\ SubmitAll(x, t, sent) = f[n]
      /\ \A i \in 1..n : f[i] = Submit(f[i - 1], t, sent[i])
  BY <1>1 DEF Submitting
<1>3. /\ n \in Nat /\ n = Len(kept)
      /\ \A i \in 1..n : sent[i] \in Action
  BY ElementOfSeq, LenProperties
<1>4. /\ e \in [0..n -> [Names -> Int]] /\ e[0] = x.pos
      /\ \A j \in 1..n : /\ Between(e[j][s], e[j - 1][s])
                         /\ e[j][s] = e[j - 1][s] + Moved(kept[j], s)
  BY <1>3 DEF Shrinks
<1>5. p \in Int
  BY DEF Account
<1> DEFINE S == {i \in 0..n : Between(e[i][s], f[i].pos[s]) /\ Between(f[i].pos[s], p)}
<1>6. 0 \in S
  BY <1>2, <1>3, <1>4, <1>5 DEF Between
<1>7. ASSUME NEW i \in 1..n, i - 1 \in S PROVE i \in S
  <2>1. i \in 0..n /\ i - 1 \in 0..n
    BY <1>3
  <2>2. PICK a, b, c : a = f[i - 1] /\ b = f[i] /\ c = sent[i]
    OBVIOUS
  <2>3. a \in Account /\ c \in Action /\ b = Submit(a, t, c)
    BY <1>2, <1>3, <2>1, <2>2
  <2>4. b \in Account /\ \A r \in Names : b.pos[r] \in {a.pos[r], a.pos[r] + Moved(c, r)}
    BY <2>3, SubmitIs
  <2>5. PICK u, v, y, z, m :
          u = a.pos[s] /\ v = b.pos[s] /\ y = e[i - 1][s] /\ z = e[i][s] /\ m = Moved(kept[i], s)
    OBVIOUS
  <2>6. u \in Int /\ v \in Int /\ y \in Int /\ z \in Int
    <3>1. a.pos \in [Names -> Int] /\ b.pos \in [Names -> Int]
      BY <2>3, <2>4 DEF Account
    <3>2. e[i - 1] \in [Names -> Int] /\ e[i] \in [Names -> Int]
      BY <1>4, <2>1
    <3> QED
      BY <2>5, <3>1, <3>2
  <2>7. m \in Int
    <3>1. kept[i] \in Action
      BY <1>3
    <3> QED
      BY <2>5, <3>1 DEF Moved, Action
  <2>8. Between(z, y) /\ z = y + m
    BY <1>4, <2>5
  <2>9. Between(y, u) /\ Between(u, p)
    BY <1>7, <2>2, <2>5
  <2>10. v = u \/ v = u + m
    <3>1. v = u \/ v = u + Moved(c, s)
      BY <2>4, <2>5
    <3>2. CASE c = kept[i]
      BY <2>5, <3>1, <3>2
    <3>3. CASE c # kept[i]
      <4>1. c.qty = 0
        BY <1>3, <2>2, <3>3
      <4>2. Moved(c, s) = 0
        BY <4>1 DEF Moved
      <4> QED
        BY <2>6, <3>1, <4>2
    <3> QED
      BY <3>2, <3>3
  <2> HIDE DEF p
  <2>11. Between(z, v) /\ Between(v, p)
    <3>1. p \in Int
      BY <1>5
    <3>2. CASE v = u
      BY <2>6, <2>7, <2>8, <2>9, <3>1, <3>2 DEF Between
    <3>3. CASE v = u + m
      BY <2>6, <2>7, <2>8, <2>9, <3>1, <3>3 DEF Between
    <3> QED
      BY <2>10, <3>2, <3>3
  <2> QED
    BY <2>1, <2>2, <2>5, <2>11 DEF p
<1>8. n \in S
  <2> HIDE DEF S, n
  <2>1. \A i \in 0..n : i \in S
    BY <1>3, <1>6, <1>7, UpTo
  <2> QED
    BY <1>3, <2>1
<1> QED
  BY <1>2, <1>8

-----------------------------------------------------------------------------
(* Late decisions: the shape of the live loop is all the argument needs.   *)

LoopShape ==
  /\ market \in Markets
  /\ live.head \in Cursors /\ live.acct \in Account

\* The account a loop starts with.
LEMMA NewAccountIs == NewAccount \in Account
<1>1. [s \in Names |-> 0] \in [Names -> Int] /\ <<>> \in Seq(Names) /\ <<>> \in Seq(Trade)
  OBVIOUS
<1>2. InitMargin \in Int
  BY LoopAssumption
<1> QED
  BY <1>1, <1>2 DEF NewAccount, Account

\* The loops start in that shape.
LEMMA InitShape == InitLoops => LoopShape
<1> SUFFICES ASSUME InitLoops PROVE LoopShape
  OBVIOUS
<1>1. live.head = [s \in Names |-> 1] /\ live.acct = NewAccount /\ market \in Markets
  BY DEF InitLoops, NewLoop
<1> QED
  BY <1>1, NewAccountIs DEF LoopShape, Cursors

\* An order the exchange refuses does nothing.
LEMMA RefusedIs ==
  ASSUME NEW c \in Action, NEW b, b = [c EXCEPT !.kind = "market", !.qty = 0]
  PROVE  b \in Action /\ b.kind = "market" /\ b.qty = 0
<1>1. c = [kind |-> c.kind, symbol |-> c.symbol, qty |-> c.qty, level |-> c.level]
      /\ c.symbol \in Names /\ c.level \in Int
  BY DEF Action
<1>2. PICK k, s, q, l : k = c.kind /\ s = c.symbol /\ q = c.qty /\ l = c.level
  OBVIOUS
<1>3. c = [kind |-> k, symbol |-> s, qty |-> q, level |-> l] /\ s \in Names /\ l \in Int
  BY <1>1, <1>2
<1>4. b = [kind |-> "market", symbol |-> s, qty |-> 0, level |-> l]
  BY <1>3
<1> QED
  BY <1>3, <1>4 DEF Action

\* What is sent of the orders that were kept.
LEMMA SentIs ==
  ASSUME NEW kept \in Seq(Action), NEW refused,
         NEW sent, sent = Sent(kept, refused)
  PROVE  /\ sent \in Seq(Action) /\ Len(sent) = Len(kept)
         /\ \A i \in 1..Len(kept) :
              sent[i] = kept[i] \/ (sent[i].kind = "market" /\ sent[i].qty = 0)
<1>1. Len(kept) \in Nat /\ DOMAIN kept = 1..Len(kept) /\ \A i \in DOMAIN kept : kept[i] \in Action
  BY ElementOfSeq, LenProperties
<1>2. ASSUME NEW i \in DOMAIN kept
      PROVE  /\ sent[i] \in Action
             /\ sent[i] = kept[i] \/ (sent[i].kind = "market" /\ sent[i].qty = 0)
  <2>1. sent[i] = IF i \in refused THEN [kept[i] EXCEPT !.kind = "market", !.qty = 0] ELSE kept[i]
    BY DEF Sent
  <2>2. CASE i \in refused
    BY <1>1, <2>1, <2>2, RefusedIs
  <2>3. CASE i \notin refused
    BY <1>1, <2>1, <2>3
  <2> QED
    BY <2>2, <2>3
<1>3. sent \in [DOMAIN kept -> Action]
  <2>1. \A i \in DOMAIN kept :
          (IF i \in refused THEN [kept[i] EXCEPT !.kind = "market", !.qty = 0]
           ELSE kept[i]) \in Action
    BY <1>2 DEF Sent
  <2> QED
    BY <2>1 DEF Sent
<1>4. sent \in Seq(Action) /\ Len(sent) = Len(kept)
  <2>1. sent \in [1..Len(kept) -> Action]
    BY <1>1, <1>3
  <2> QED
    BY <1>1, <2>1
<1> QED
  BY <1>1, <1>2, <1>4

\* What a live event does to the account, whether it is late or not.
LEMMA LiveStepShape ==
  ASSUME LoopShape, Waiting(live.head) # {}, market' = market,
         NEW actions \in Seq(Action), live' = LiveLoop(live, actions)
  PROVE  LoopShape'
<1>1. PICK l : l = live
  OBVIOUS
<1>2. l.head \in Cursors /\ l.acct \in Account /\ market \in Markets /\ Waiting(l.head) # {}
  BY <1>1 DEF LoopShape
<1>3. LiveLoop(l, actions).head \in Cursors /\ LiveLoop(l, actions).acct \in Account
  BY <1>2, LiveLoopIs
<1>4. live' = LiveLoop(l, actions)
  BY <1>1
<1> QED
  BY <1>2, <1>3, <1>4 DEF LoopShape

\* The actions a strategy returns, and what is kept of those of a late event.
LEMMA LateEventIs ==
  ASSUME LoopShape, NEW actions \in LateLists, NEW refused, LateEvent(actions, refused)
  PROVE  /\ acts' \in Seq(Action) /\ live' = LiveLoop(live, acts')
         /\ market' = market /\ Waiting(live.head) # {}
         /\ \A s \in Names : Between(live'.acct.pos[s], Begun(live).pos[s])
<1>1. PICK l : l = live
  OBVIOUS
<1>2. l.head \in Cursors /\ l.acct \in Account /\ market \in Markets /\ Waiting(l.head) # {}
  BY <1>1 DEF LoopShape, LateEvent
<1>3. PICK kept : kept = DropExposureIncrease(actions, Begun(l))
  OBVIOUS
<1>4. actions \in Seq(Action)
  BY LoopAssumption
<1>5. Begun(l) \in Account
  <2>1. <<>> \in Seq(Action)
    OBVIOUS
  <2> QED
    BY <1>2, <2>1, LiveLoopIs
<1>6. kept \in Seq(Action) /\ \E e, to : Shrinks(e, kept, Begun(l).pos, to)
  BY <1>3, <1>4, <1>5, KeptShrinks
<1>7. PICK sent : sent = acts'
  OBVIOUS
<1>8. sent = Sent(kept, refused)
  BY <1>1, <1>3, <1>7 DEF LateEvent
<1>9. /\ sent \in Seq(Action) /\ Len(sent) = Len(kept)
      /\ \A i \in 1..Len(kept) :
           sent[i] = kept[i] \/ (sent[i].kind = "market" /\ sent[i].qty = 0)
  BY <1>6, <1>8, SentIs
<1>10. live' = LiveLoop(l, sent) /\ market' = market
  BY <1>1, <1>7 DEF LateEvent
<1>11. PICK x \in Account : /\ x.pos = Begun(l).pos
                            /\ LiveLoop(l, sent).acct = SubmitAll(x, NextTime(l.head), sent)
  BY <1>2, <1>9, LiveLoopIs
<1>12. NextTime(l.head) \in Int
  BY <1>2, NextEvent
<1>13. \A s \in Names : Between(SubmitAll(x, NextTime(l.head), sent).pos[s], x.pos[s])
  BY <1>6, <1>9, <1>11, <1>12, FilledShrinks
<1>14. \A s \in Names : Between(live'.acct.pos[s], Begun(l).pos[s])
  BY <1>10, <1>11, <1>13
<1> QED
  BY <1>1, <1>2, <1>7, <1>9, <1>10, <1>14

\* Every step keeps to that shape.
LEMMA NextShape == LoopShape /\ [NextLoops]_loopVars => LoopShape'
<1> SUFFICES ASSUME LoopShape, [NextLoops]_loopVars PROVE LoopShape'
  OBVIOUS
<1>1. ASSUME UNCHANGED <<market, live>> PROVE LoopShape'
  BY <1>1 DEF LoopShape, Cursors, Account, Trade
<1>2. CASE Start \/ BacktestEvent \/ UNCHANGED loopVars
  BY <1>1, <1>2 DEF Start, BacktestEvent, loopVars
<1>3. ASSUME NEW actions \in ActionLists, LiveEvent(actions) PROVE LoopShape'
  <2>1. actions \in Seq(Action)
    BY LoopAssumption
  <2> QED
    BY <1>3, <2>1, LiveStepShape DEF LiveEvent
<1>4. ASSUME NEW actions \in LateLists, NEW refused, LateEvent(actions, refused) PROVE LoopShape'
  <2>1. PICK sent \in Seq(Action) : /\ live' = LiveLoop(live, sent)
                                    /\ market' = market /\ Waiting(live.head) # {}
    BY <1>4, LateEventIs
  <2> QED
    BY <2>1, LiveStepShape
<1> QED
  BY <1>2, <1>3, <1>4 DEF NextLoops

(***************************************************************************)
(* For any actions a strategy returns on a late event, and whichever of    *)
(* them the exchange refuses, no position grows or turns (process_event of *)
(* the trading engine, the filter of a late event).                        *)
(***************************************************************************)
THEOREM LateDecisionsShrink == SpecLoops => LateNeverGrows
<1>1. SpecLoops => []LoopShape
  BY InitShape, NextShape, PTL DEF SpecLoops
<1>2. LoopShape /\ [NextLoops]_loopVars =>
        [phase = "running" /\ phase' = "late" =>
           \A s \in Names : Between(live'.acct.pos[s], Begun(live).pos[s])]_loopVars
  <2> SUFFICES ASSUME LoopShape, [NextLoops]_loopVars, phase = "running", phase' = "late"
               PROVE  \A s \in Names : Between(live'.acct.pos[s], Begun(live).pos[s])
    OBVIOUS
  <2>1. PICK actions \in LateLists :
          \E refused \in SUBSET (DOMAIN actions) : LateEvent(actions, refused)
    BY DEF NextLoops, loopVars, Start, LiveEvent, BacktestEvent
  <2> QED
    BY <2>1, LateEventIs
<1> QED
  BY <1>1, <1>2, PTL DEF SpecLoops, LateNeverGrows

-----------------------------------------------------------------------------
(* Sums, and deques that hold the last of a sequence.                      *)

\* The running sums of a sequence.
Running(P, xs, n) ==
  /\ P \in [0..n -> Int] /\ P[0] = 0
  /\ \A i \in 1..n : P[i] = P[i - 1] + xs[i]

\* They exist.
LEMMA RunningExists ==
  ASSUME NEW n \in Nat, NEW xs, \A i \in 1..n : xs[i] \in Int
  PROVE  \E P : Running(P, xs, n)
<1> DEFINE S == {m \in 0..n : \E P : Running(P, xs, m)}
<1>1. 0 \in S
  <2> DEFINE P == [i \in 0..0 |-> 0]
  <2>1. Running(P, xs, 0)
    BY DEF Running
  <2> HIDE DEF P
  <2> QED
    BY <2>1
<1>2. ASSUME NEW m \in 1..n, m - 1 \in S PROVE m \in S
  <2>1. PICK P : Running(P, xs, m - 1)
    BY <1>2
  <2> DEFINE Q == [i \in 0..m |-> IF i = m THEN P[m - 1] + xs[m] ELSE P[i]]
  <2>2. P \in [0..(m - 1) -> Int] /\ P[0] = 0 /\ m - 1 \in 0..(m - 1)
    BY <2>1 DEF Running
  <2>3. \A i \in 1..(m - 1) : P[i] = P[i - 1] + xs[i]
    BY <2>1 DEF Running
  <2>4. Q \in [0..m -> Int]
    <3> SUFFICES ASSUME NEW i \in 0..m PROVE (IF i = m THEN P[m - 1] + xs[m] ELSE P[i]) \in Int
      OBVIOUS
    <3>1. i # m => i \in 0..(m - 1)
      OBVIOUS
    <3> QED
      BY <2>2, <3>1
  <2>5. Q[0] = 0
    BY <2>2
  <2>6. ASSUME NEW i \in 1..m PROVE Q[i] = Q[i - 1] + xs[i]
    <3>1. i \in 0..m /\ i - 1 \in 0..m /\ i - 1 # m
      OBVIOUS
    <3>2. Q[i - 1] = P[i - 1]
      BY <3>1
    <3>3. CASE i = m
      <4>1. Q[i] = P[m - 1] + xs[m]
        BY <3>1, <3>3
      <4> HIDE DEF Q
      <4> QED
        BY <3>2, <3>3, <4>1
    <3>4. CASE i # m
      <4>1. Q[i] = P[i] /\ i \in 1..(m - 1)
        BY <3>1, <3>4
      <4> HIDE DEF Q
      <4> QED
        BY <2>3, <3>2, <4>1
    <3> QED
      BY <3>3, <3>4
  <2> HIDE DEF Q
  <2>7. Running(Q, xs, m)
    BY <2>4, <2>5, <2>6 DEF Running
  <2> QED
    BY <2>7
<1>3. n \in S
  <2> HIDE DEF S
  <2>1. \A i \in 0..n : i \in S
    BY <1>1, <1>2, UpTo
  <2> QED
    BY <2>1
<1> QED
  BY <1>3

\* The sums over the sets of positions, whatever is added last.
Totals(h, xs, n) ==
  /\ h \in [SUBSET (1..n) -> Int] /\ h[{}] = 0
  /\ \A T \in SUBSET (1..n) : \A x \in T : h[T] = h[T \ {x}] + xs[x]

\* There are such sums.
LEMMA TotalsExist ==
  ASSUME NEW n \in Nat, NEW xs, \A i \in 1..n : xs[i] \in Int
  PROVE  \E h : Totals(h, xs, n)
<1> DEFINE S == {m \in 0..n : \E h : Totals(h, xs, m)}
<1>1. 0 \in S
  <2> DEFINE h == [T \in SUBSET (1..0) |-> 0]
  <2>1. \A T \in SUBSET (1..0) : T = {}
    OBVIOUS
  <2>2. h \in [SUBSET (1..0) -> Int] /\ h[{}] = 0
    OBVIOUS
  <2>3. Totals(h, xs, 0)
    BY <2>1, <2>2 DEF Totals
  <2> HIDE DEF h
  <2> QED
    BY <2>3
<1>2. ASSUME NEW m \in 1..n, m - 1 \in S PROVE m \in S
  <2>1. PICK h : Totals(h, xs, m - 1)
    BY <1>2
  <2>2. 1..m = (1..(m - 1)) \cup {m} /\ xs[m] \in Int
    OBVIOUS
  <2>3. /\ h \in [SUBSET (1..(m - 1)) -> Int] /\ h[{}] = 0
        /\ \A T \in SUBSET (1..(m - 1)) : \A x \in T : h[T] = h[T \ {x}] + xs[x]
    BY <2>1 DEF Totals
  <2> DEFINE g == [T \in SUBSET (1..m) |-> IF m \in T THEN h[T \ {m}] + xs[m] ELSE h[T]]
  <2>4. /\ \A T \in SUBSET (1..m) : T \ {m} \in SUBSET (1..(m - 1))
        /\ \A T \in SUBSET (1..m) : m \notin T => T \in SUBSET (1..(m - 1))
    BY <2>2
  <2>5. g \in [SUBSET (1..m) -> Int]
    <3> SUFFICES ASSUME NEW T \in SUBSET (1..m)
                 PROVE (IF m \in T THEN h[T \ {m}] + xs[m] ELSE h[T]) \in Int
      OBVIOUS
    <3>1. CASE m \in T
      <4>1. h[T \ {m}] \in Int
        BY <2>3, <2>4
      <4> QED
        BY <2>2, <3>1, <4>1
    <3>2. CASE m \notin T
      BY <2>3, <2>4, <3>2
    <3> QED
      BY <3>1, <3>2
  <2>6. g[{}] = 0
    BY <2>3
  <2>7. ASSUME NEW T \in SUBSET (1..m), NEW x \in T PROVE g[T] = g[T \ {x}] + xs[x]
    <3>1. T \ {x} \in SUBSET (1..m)
      OBVIOUS
    <3>2. CASE x = m
      <4>1. g[T] = h[T \ {m}] + xs[m] /\ g[T \ {x}] = h[T \ {m}]
        BY <3>1, <3>2
      <4> HIDE DEF g
      <4> QED
        BY <3>2, <4>1
    <3>3. CASE x # m /\ m \in T
      <4>1. PICK U : U = T \ {m}
        OBVIOUS
      <4>2. U \in SUBSET (1..(m - 1)) /\ x \in U /\ U \ {x} \in SUBSET (1..(m - 1))
        BY <2>4, <3>3, <4>1
      <4>3. h[U] = h[U \ {x}] + xs[x] /\ h[U] \in Int /\ h[U \ {x}] \in Int
        BY <2>3, <4>2
      <4>4. g[T] = h[U] + xs[m]
        BY <3>3, <4>1
      <4>5. (T \ {x}) \ {m} = U \ {x} /\ m \in T \ {x}
        BY <3>3, <4>1
      <4>6. g[T \ {x}] = h[U \ {x}] + xs[m]
        BY <3>1, <4>5
      <4>7. xs[x] \in Int
        BY <2>2, <4>2
      <4> HIDE DEF g
      <4> QED
        BY <2>2, <4>3, <4>4, <4>6, <4>7
    <3>4. CASE m \notin T
      <4>1. g[T] = h[T] /\ g[T \ {x}] = h[T \ {x}] /\ T \in SUBSET (1..(m - 1))
        BY <2>4, <3>1, <3>4
      <4> HIDE DEF g
      <4> QED
        BY <2>3, <4>1
    <3> QED
      BY <3>2, <3>3, <3>4
  <2> HIDE DEF g
  <2>8. Totals(g, xs, m)
    BY <2>5, <2>6, <2>7 DEF Totals
  <2> QED
    BY <2>8
<1>3. n \in S
  <2> HIDE DEF S
  <2>1. \A i \in 0..n : i \in S
    BY <1>1, <1>2, UpTo
  <2> QED
    BY <2>1
<1> QED
  BY <1>3

\* Over the first positions they are the running sums.
LEMMA TotalsRun ==
  ASSUME NEW n \in Nat, NEW xs, NEW h, Totals(h, xs, n), NEW P, Running(P, xs, n)
  PROVE  \A i \in 0..n : h[1..i] = P[i]
<1> DEFINE S == {i \in 0..n : h[1..i] = P[i]}
<1>1. 0 \in S
  <2>1. 1..0 = {}
    OBVIOUS
  <2> QED
    BY <2>1 DEF Totals, Running
<1>2. ASSUME NEW i \in 1..n, i - 1 \in S PROVE i \in S
  <2>1. 1..i \in SUBSET (1..n) /\ i \in 1..i /\ (1..i) \ {i} = 1..(i - 1)
    OBVIOUS
  <2>2. h[1..i] = h[(1..i) \ {i}] + xs[i]
    BY <2>1 DEF Totals
  <2>3. P[i] = P[i - 1] + xs[i]
    BY DEF Running
  <2>4. h[1..(i - 1)] = P[i - 1]
    BY <1>2
  <2>5. h[1..i] = P[i]
    <3>1. PICK U, V : U = 1..i /\ V = 1..(i - 1)
      OBVIOUS
    <3>2. h[U] = h[V] + xs[i] /\ h[V] = P[i - 1]
      BY <2>1, <2>2, <2>4, <3>1
    <3> QED
      BY <2>3, <3>1, <3>2
  <2> QED
    BY <2>5
<1> QED
  <2> HIDE DEF S
  <2>1. \A i \in 0..n : i \in S
    BY <1>1, <1>2, UpTo
  <2> QED
    BY <2>1 DEF S

\* SumOf adds up the positions in an order of its own.
LEMMA SumIs ==
  ASSUME NEW n \in Nat, NEW xs, DOMAIN xs = 1..n, \A i \in 1..n : xs[i] \in Int,
         NEW P, Running(P, xs, n)
  PROVE  SumOf(xs) = P[n]
<1> DEFINE One(T) == CHOOSE x \in T : TRUE
           By(g) == g = [T \in SUBSET (1..n) |->
                           IF T = {} THEN 0 ELSE xs[One(T)] + g[T \ {One(T)}]]
<1>1. PICK h : Totals(h, xs, n)
  BY TotalsExist
<1>2. /\ h \in [SUBSET (1..n) -> Int] /\ h[{}] = 0
      /\ \A T \in SUBSET (1..n) : \A x \in T : h[T] = h[T \ {x}] + xs[x]
  BY <1>1 DEF Totals
<1>3. SumOf(xs) = (CHOOSE g : By(g))[1..n]
  BY DEF SumOf, MapThenSumSet, MapThenFoldSet
<1>4. ASSUME NEW T \in SUBSET (1..n), T # {}
      PROVE  /\ One(T) \in T /\ xs[One(T)] \in Int
             /\ T \ {One(T)} \in SUBSET (1..n) /\ h[T \ {One(T)}] \in Int
             /\ h[T] = xs[One(T)] + h[T \ {One(T)}]
  <2>1. One(T) \in T
    BY <1>4
  <2> HIDE DEF One
  <2>2. T \ {One(T)} \in SUBSET (1..n) /\ xs[One(T)] \in Int
    BY <2>1
  <2>3. h[T \ {One(T)}] \in Int /\ h[T] = h[T \ {One(T)}] + xs[One(T)]
    BY <1>2, <2>1, <2>2
  <2> QED
    BY <2>1, <2>2, <2>3
<1> HIDE DEF One
<1>5. By(h)
  <2>1. h = [T \in SUBSET (1..n) |-> h[T]]
    BY <1>2
  <2>2. \A T \in SUBSET (1..n) : h[T] = IF T = {} THEN 0 ELSE xs[One(T)] + h[T \ {One(T)}]
    BY <1>2, <1>4
  <2> DEFINE e == [T \in SUBSET (1..n) |-> IF T = {} THEN 0 ELSE xs[One(T)] + h[T \ {One(T)}]]
  <2>3. \A T \in SUBSET (1..n) : h[T] = e[T]
    BY <2>2
  <2>4. DOMAIN e = SUBSET (1..n) /\ e = [T \in SUBSET (1..n) |-> e[T]]
    OBVIOUS
  <2> HIDE DEF e
  <2>5. h = e
    BY <2>1, <2>3, <2>4
  <2> QED
    BY <2>5 DEF e
<1>6. PICK g : g = (CHOOSE k : By(k)) /\ By(g)
  <2> HIDE DEF By
  <2> QED
    BY <1>5
<1> DEFINE Small(k) == \A T \in SUBSET (1..n) : Cardinality(T) = k => g[T] = h[T]
           S == {k \in 0..n : Small(k)}
<1>7. \A T \in SUBSET (1..n) : IsFiniteSet(T) /\ Cardinality(T) \in 0..n
  <2> SUFFICES ASSUME NEW T \in SUBSET (1..n) PROVE IsFiniteSet(T) /\ Cardinality(T) \in 0..n
    OBVIOUS
  <2>1. 1 \in Int /\ n \in Int /\ (1 > n => n = 0)
    OBVIOUS
  <2>2. IsFiniteSet(1..n) /\ Cardinality(1..n) = n
    BY <2>1, FS_Interval
  <2>3. IsFiniteSet(T) /\ Cardinality(T) <= Cardinality(1..n)
    BY <2>2, FS_Subset
  <2>4. Cardinality(T) \in Nat
    BY <2>3, FS_CardinalityType
  <2> QED
    BY <2>2, <2>3, <2>4
<1>8. 0 \in S
  <2> SUFFICES ASSUME NEW T \in SUBSET (1..n), Cardinality(T) = 0 PROVE g[T] = h[T]
    OBVIOUS
  <2>1. T = {}
    BY <1>7, FS_EmptySet
  <2> QED
    BY <1>2, <1>6, <2>1
<1>9. ASSUME NEW k \in 1..n, k - 1 \in S PROVE k \in S
  <2> SUFFICES ASSUME NEW T \in SUBSET (1..n), Cardinality(T) = k PROVE g[T] = h[T]
    OBVIOUS
  <2>1. T # {}
    <3> HIDE DEF S, Small
    <3>1. k # 0
      OBVIOUS
    <3> QED
      BY <3>1, FS_EmptySet
  <2>2. Cardinality(T \ {One(T)}) = k - 1
    BY <1>4, <1>7, <2>1, FS_RemoveElement
  <2>3. g[T \ {One(T)}] = h[T \ {One(T)}]
    BY <1>4, <1>9, <2>1, <2>2
  <2>4. g[T] = xs[One(T)] + g[T \ {One(T)}]
    BY <1>6, <2>1
  <2> QED
    BY <1>4, <2>1, <2>3, <2>4
<1>10. g[1..n] = h[1..n]
  <2> HIDE DEF S, Small
  <2>1. \A k \in 0..n : k \in S
    BY <1>8, <1>9, UpTo
  <2>2. 1..n \in SUBSET (1..n)
    OBVIOUS
  <2>3. Cardinality(1..n) \in 0..n
    BY <1>7, <2>2
  <2>4. Small(Cardinality(1..n))
    BY <2>1, <2>3 DEF S
  <2> QED
    BY <2>2, <2>4 DEF Small
<1>11. n \in 0..n
  OBVIOUS
<1>12. h[1..n] = P[n]
  BY <1>1, <1>11, TotalsRun
<1> QED
  BY <1>3, <1>6, <1>10, <1>12

\* How many of the values at lo..m a deque of that capacity has.
Stored(lo, m, cap) == IF m < lo THEN 0 ELSE IF m - lo + 1 < cap THEN m - lo + 1 ELSE cap
\* It has the last of them.
Holds(d, f, lo, m, cap) ==
  /\ Len(d) = Stored(lo, m, cap)
  /\ \A i \in 1..Stored(lo, m, cap) : d[i] = f[m - Stored(lo, m, cap) + i]

\* It is no more than there are, and no more than fit.
LEMMA StoredIs ==
  ASSUME NEW lo \in Nat \ {0}, NEW m \in Nat, NEW cap \in Nat \ {0}
  PROVE  Stored(lo, m, cap) \in 0..cap /\ Stored(lo, m, cap) <= m
BY DEF Stored

\* One value more.
LEMMA PushHolds ==
  ASSUME NEW X, NEW d \in Seq(X), NEW x \in X, NEW f, NEW lo \in Nat \ {0}, NEW m \in Nat \ {0},
         NEW cap \in Nat \ {0}, Holds(d, f, lo, m - 1, cap), lo <= m, x = f[m],
         NEW e, e = Push(d, x, cap)
  PROVE  e \in Seq(X) /\ Holds(e, f, lo, m, cap) /\ Len(e) # 0 /\ Len(d) <= cap
<1> DEFINE k == Stored(lo, m - 1, cap)
           l == Stored(lo, m, cap)
           a == Append(d, x)
<1>1. /\ k \in Nat /\ k <= m - 1 /\ k <= cap /\ (l = IF k = cap THEN cap ELSE k + 1)
  BY DEF Stored
<1>2. Len(d) = k /\ \A i \in 1..k : d[i] = f[m - 1 - k + i]
  BY DEF Holds
<1> HIDE DEF k, l
<1>3. /\ a \in Seq(X) /\ Len(a) = k + 1 /\ a[k + 1] = x
      /\ \A i \in 1..k : a[i] = d[i]
  BY <1>1, <1>2
<1>4. \A i \in 1..k + 1 : a[i] = f[m - 1 - k + i]
  <2> SUFFICES ASSUME NEW i \in 1..k + 1 PROVE a[i] = f[m - 1 - k + i]
    OBVIOUS
  <2>1. CASE i = k + 1
    <3>1. m - 1 - k + i = m
      BY <1>1, <2>1
    <3> QED
      BY <1>3, <2>1, <3>1
  <2>2. CASE i # k + 1
    <3>1. i \in 1..k
      BY <1>1, <2>2
    <3> QED
      BY <1>2, <1>3, <3>1
  <2> QED
    BY <2>1, <2>2
<1>5. e = IF k + 1 > cap THEN Tail(a) ELSE a
  BY <1>3 DEF Push
<1> HIDE DEF a
<1>6. CASE k = cap
  <2>1. e = Tail(a) /\ a # <<>>
    BY <1>1, <1>3, <1>5, <1>6
  <2>2. e \in Seq(X) /\ Len(e) = k /\ \A i \in 1..k : e[i] = a[i + 1]
    BY <1>1, <1>3, <2>1
  <2>3. \A i \in 1..k : e[i] = f[m - k + i]
    <3> SUFFICES ASSUME NEW i \in 1..k PROVE e[i] = f[m - k + i]
      OBVIOUS
    <3>1. i + 1 \in 1..k + 1 /\ m - 1 - k + (i + 1) = m - k + i
      BY <1>1
    <3> QED
      BY <1>4, <2>2, <3>1
  <2>4. l = k
    BY <1>1, <1>6
  <2> QED
    BY <1>1, <1>2, <1>6, <2>2, <2>3, <2>4 DEF Holds, l
<1>7. CASE k # cap
  <2>1. e = a /\ l = k + 1
    BY <1>1, <1>5, <1>7
  <2>2. \A i \in 1..l : e[i] = f[m - l + i]
    <3> SUFFICES ASSUME NEW i \in 1..l PROVE e[i] = f[m - l + i]
      OBVIOUS
    <3>1. i \in 1..k + 1 /\ m - 1 - k + i = m - l + i
      BY <1>1, <2>1
    <3> QED
      BY <1>4, <2>1, <3>1
  <2> QED
    BY <1>1, <1>2, <1>3, <2>1, <2>2 DEF Holds, l
<1> QED
  BY <1>6, <1>7

\* What is read at a depth, and what that is when the last values of f are kept.
Reading(ind, d) == Read(ind, -d)
Shown(f, lo, m, cap, d) ==
  IF d > cap THEN Refused ELSE IF m - d + 1 < lo THEN None
  ELSE IF f[m - d + 1] = NaN THEN None ELSE f[m - d + 1]

\* They are the same.
LEMMA ReadIs ==
  ASSUME NEW ind, NEW f, NEW lo \in Nat \ {0}, NEW m \in Nat, NEW d \in Nat \ {0},
         Kept(ind.kind) \in Nat \ {0}, Holds(ind.out, f, lo, m, Kept(ind.kind))
  PROVE  Reading(ind, d) = Shown(f, lo, m, Kept(ind.kind), d)
<1> DEFINE cap == Kept(ind.kind)
           k == Stored(lo, m, cap)
<1>1. k = IF m < lo THEN 0 ELSE IF m - lo + 1 < cap THEN m - lo + 1 ELSE cap
  BY DEF Stored
<1>2. Len(ind.out) = k /\ \A i \in 1..k : ind.out[i] = f[m - k + i]
  BY DEF Holds
<1> HIDE DEF k
<1>3. -d \in Int /\ ~(-d >= 0) /\ (-d < -cap <=> d > cap)
  OBVIOUS
<1>4. CASE d > cap
  <2>1. Read(ind, -d) = Refused
    BY <1>3, <1>4 DEF Read
  <2> QED
    BY <1>4, <2>1 DEF Reading, Shown
<1>5. CASE d <= cap /\ m - d + 1 < lo
  <2>1. Len(ind.out) + (-d) + 1 < 1
    BY <1>1, <1>2, <1>5
  <2>2. Read(ind, -d) = None
    BY <1>3, <1>5, <2>1 DEF Read
  <2> QED
    BY <1>5, <2>2 DEF Reading, Shown
<1>6. CASE d <= cap /\ ~(m - d + 1 < lo)
  <2>1. d <= k /\ k \in Nat /\ k <= m
    BY <1>1, <1>6
  <2>2. /\ ~(Len(ind.out) + (-d) + 1 < 1) /\ Len(ind.out) + (-d) + 1 = k - d + 1
    BY <1>2, <1>6, <2>1
  <2>3. ind.out[k - d + 1] = f[m - d + 1]
    <3>1. k - d + 1 \in 1..k /\ m - k + (k - d + 1) = m - d + 1
      BY <2>1
    <3> QED
      BY <1>2, <3>1
  <2>4. Read(ind, -d) = IF ind.out[k - d + 1] = NaN THEN None ELSE ind.out[k - d + 1]
    <3>1. PICK a : a = -d
      OBVIOUS
    <3>2. ~(a >= 0) /\ ~(a < -cap) /\ Len(ind.out) + a + 1 = k - d + 1
          /\ ~(Len(ind.out) + a + 1 < 1)
      <4>1. ~(a >= 0) /\ ~(a < -cap)
        BY <1>3, <1>6, <3>1
      <4>2. Len(ind.out) + a + 1 = k - d + 1 /\ ~(Len(ind.out) + a + 1 < 1)
        BY <2>2, <3>1
      <4> QED
        BY <4>1, <4>2
    <3>3. Read(ind, a) = LET v == ind.out[Len(ind.out) + a + 1]
                         IN IF v = NaN THEN None ELSE v
      BY <3>2 DEF Read
    <3> QED
      BY <3>1, <3>2, <3>3
  <2> QED
    BY <1>6, <2>3, <2>4 DEF Reading, Shown
<1> QED
  BY <1>4, <1>5, <1>6

\* The last of the outputs is what reading one back gives.
LEMMA ReadLast ==
  ASSUME NEW ind, NEW f, NEW lo \in Nat \ {0}, NEW m \in Nat,
         Kept(ind.kind) \in Nat \ {0}, Holds(ind.out, f, lo, m, Kept(ind.kind))
  PROVE  /\ m < lo => Read(ind, -1) = None
         /\ ~(m < lo) => Read(ind, -1) = IF f[m] = NaN THEN None ELSE f[m]
<1>1. PICK d \in Nat \ {0} : d = 1
  OBVIOUS
<1>2. m - d + 1 = m /\ ~(d > Kept(ind.kind))
  BY <1>1
<1>3. Reading(ind, d) = Shown(f, lo, m, Kept(ind.kind), d)
  BY ReadIs
<1>4. Reading(ind, d) = Read(ind, -1)
  BY <1>1 DEF Reading
<1> QED
  BY <1>2, <1>3, <1>4 DEF Shown

Fields == {"kind", "window", "out", "seen", "vals", "sum", "prev", "upper", "lower", "trend",
           "buys", "missing", "p1", "y1", "p2", "y2", "pairs"}

\* An output changes nothing else of an indicator.
LEMMA EmitIs ==
  ASSUME NEW ind, DOMAIN ind = Fields, NEW v, NEW e, e = Emit(ind, v)
  PROVE  /\ DOMAIN e = Fields
         /\ e.out = Push(ind.out, v, Kept(ind.kind))
         /\ e.kind = ind.kind /\ e.window = ind.window /\ e.seen = ind.seen /\ e.vals = ind.vals
         /\ e.sum = ind.sum /\ e.prev = ind.prev /\ e.buys = ind.buys /\ e.missing = ind.missing
         /\ e.p1 = ind.p1 /\ e.y1 = ind.y1 /\ e.p2 = ind.p2 /\ e.y2 = ind.y2
         /\ e.pairs = ind.pairs
BY DEF Emit, Fields

\* A sum of integers is one.
LEMMA SumInt ==
  ASSUME NEW d \in Seq(Int)
  PROVE  SumOf(d) \in Int
<1>1. Len(d) \in Nat /\ DOMAIN d = 1..Len(d) /\ \A i \in 1..Len(d) : d[i] \in Int
  BY ElementOfSeq, LenProperties
<1>2. PICK P : Running(P, d, Len(d))
  BY <1>1, RunningExists
<1>3. SumOf(d) = P[Len(d)]
  BY <1>1, <1>2, SumIs
<1>4. P[Len(d)] \in Int
  BY <1>1, <1>2 DEF Running
<1> QED
  BY <1>3, <1>4

\* A sum with one more element at the end.
LEMMA SumAppend ==
  ASSUME NEW d \in Seq(Int), NEW x \in Int
  PROVE  SumOf(Append(d, x)) = SumOf(d) + x
<1> DEFINE n == Len(d)
           a == Append(d, x)
<1>1. n \in Nat /\ DOMAIN d = 1..n /\ \A i \in 1..n : d[i] \in Int
  BY ElementOfSeq, LenProperties
<1>2. /\ DOMAIN a = 1..n + 1 /\ a[n + 1] = x
      /\ \A i \in 1..n : a[i] = d[i]
  BY <1>1
<1> HIDE DEF a, n
<1>3. \A i \in 1..n + 1 : a[i] \in Int
  <2> SUFFICES ASSUME NEW i \in 1..n + 1 PROVE a[i] \in Int
    OBVIOUS
  <2>1. i = n + 1 \/ i \in 1..n
    BY <1>1
  <2> QED
    BY <1>1, <1>2, <2>1
<1>4. n + 1 \in Nat
  BY <1>1
<1>5. PICK P : Running(P, a, n + 1)
  BY <1>3, <1>4, RunningExists
<1>6. /\ P \in [0..n + 1 -> Int] /\ P[0] = 0
      /\ \A i \in 1..n + 1 : P[i] = P[i - 1] + a[i]
  BY <1>5 DEF Running
<1>7. PICK R : R = [i \in 0..n |-> P[i]]
  OBVIOUS
<1>8. Running(R, d, n)
  <2>1. R \in [0..n -> Int]
    BY <1>1, <1>6, <1>7
  <2>2. R[0] = 0
    BY <1>1, <1>6, <1>7
  <2>3. ASSUME NEW i \in 1..n PROVE R[i] = R[i - 1] + d[i]
    <3>1. i \in 1..n + 1 /\ i \in 0..n /\ i - 1 \in 0..n
      BY <1>1
    <3>2. P[i] = P[i - 1] + a[i] /\ R[i] = P[i] /\ R[i - 1] = P[i - 1] /\ a[i] = d[i]
      BY <1>2, <1>6, <1>7, <3>1
    <3> QED
      BY <3>2
  <2> QED
    BY <2>1, <2>2, <2>3 DEF Running
<1>9. SumOf(a) = P[n + 1]
  BY <1>2, <1>3, <1>4, <1>5, SumIs
<1>10. SumOf(d) = R[n]
  BY <1>1, <1>8, SumIs
<1>11. P[n + 1] = P[n] + x /\ R[n] = P[n]
  <2>1. n + 1 \in 1..n + 1 /\ (n + 1) - 1 = n /\ n \in 0..n
    BY <1>1
  <2>2. P[n + 1] = P[(n + 1) - 1] + a[n + 1]
    BY <1>6, <2>1
  <2> QED
    BY <1>2, <1>7, <2>1, <2>2
<1> QED
  BY <1>9, <1>10, <1>11 DEF a

\* A sum without its first element.
LEMMA SumTail ==
  ASSUME NEW d \in Seq(Int), d # <<>>
  PROVE  SumOf(Tail(d)) = SumOf(d) - Head(d)
<1> DEFINE n == Len(d) - 1
           t == Tail(d)
<1>1. n \in Nat /\ Len(d) = n + 1 /\ DOMAIN d = 1..n + 1 /\ \A i \in 1..n + 1 : d[i] \in Int
  BY ElementOfSeq, LenProperties
<1>2. DOMAIN t = 1..n /\ Head(d) = d[1] /\ \A i \in 1..n : t[i] = d[i + 1]
  BY <1>1
<1> HIDE DEF t, n
<1>3. n + 1 \in Nat
  BY <1>1
<1>4. PICK P : Running(P, d, n + 1)
  BY <1>1, <1>3, RunningExists
<1>5. /\ P \in [0..n + 1 -> Int] /\ P[0] = 0
      /\ \A i \in 1..n + 1 : P[i] = P[i - 1] + d[i]
  BY <1>4 DEF Running
<1>6. PICK R : R = [i \in 0..n |-> P[i + 1] - P[1]]
  OBVIOUS
<1>7. P[1] \in Int /\ 1 \in 0..n + 1 /\ \A i \in 0..n : i + 1 \in 0..n + 1 /\ P[i + 1] \in Int
  BY <1>1, <1>5
<1>8. Running(R, t, n)
  <2>1. R \in [0..n -> Int]
    BY <1>6, <1>7
  <2>2. R[0] = 0
    BY <1>1, <1>6, <1>7
  <2>3. ASSUME NEW i \in 1..n PROVE R[i] = R[i - 1] + t[i]
    <3>1. i \in 0..n /\ i - 1 \in 0..n /\ i + 1 \in 1..n + 1 /\ (i + 1) - 1 = i /\ (i - 1) + 1 = i
      BY <1>1
    <3>2. P[i + 1] = P[i] + d[i + 1]
      BY <1>5, <3>1
    <3>3. R[i] = P[i + 1] - P[1] /\ R[i - 1] = P[i] - P[1]
      BY <1>6, <3>1
    <3>4. P[i] \in Int /\ P[i + 1] \in Int /\ d[i + 1] \in Int
      BY <1>1, <1>5, <1>7, <3>1
    <3> QED
      BY <1>2, <1>7, <3>2, <3>3, <3>4
  <2> QED
    BY <2>1, <2>2, <2>3 DEF Running
<1>9. SumOf(d) = P[n + 1]
  BY <1>1, <1>3, <1>4, SumIs
<1>10. \A i \in 1..n : t[i] \in Int
  <2> SUFFICES ASSUME NEW i \in 1..n PROVE t[i] \in Int
    OBVIOUS
  <2>1. i + 1 \in 1..n + 1
    BY <1>1
  <2> QED
    BY <1>1, <1>2, <2>1
<1>11. SumOf(t) = R[n]
  BY <1>1, <1>2, <1>8, <1>10, SumIs
<1>12. R[n] = P[n + 1] - P[1] /\ P[1] = d[1]
  <2>1. n \in 0..n /\ 1 \in 1..n + 1 /\ 1 - 1 = 0 /\ d[1] \in Int
    BY <1>1
  <2>2. P[1] = P[1 - 1] + d[1]
    BY <1>5, <2>1
  <2> QED
    BY <1>5, <1>6, <2>1, <2>2
<1> QED
  BY <1>2, <1>9, <1>11, <1>12 DEF t

\* A sum that slides with its window.
LEMMA SumPush ==
  ASSUME NEW d \in Seq(Int), NEW x \in Int, NEW cap \in Nat \ {0}, Len(d) <= cap
  PROVE  /\ Len(d) = cap => SumOf(Push(d, x, cap)) = SumOf(d) - Head(d) + x
         /\ Len(d) # cap => SumOf(Push(d, x, cap)) = SumOf(d) - 0 + x
<1> DEFINE a == Append(d, x)
<1>1. a \in Seq(Int) /\ Len(d) \in Nat /\ Len(a) = Len(d) + 1 /\ a # <<>>
  OBVIOUS
<1>2. SumOf(a) = SumOf(d) + x /\ SumOf(d) \in Int
  BY SumAppend, SumInt
<1>3. Push(d, x, cap) = IF Len(a) > cap THEN Tail(a) ELSE a
  BY DEF Push
<1>4. CASE Len(d) = cap
  <2>1. Head(a) = Head(d) /\ Head(a) \in Int
    <3>1. 1 \in 1..Len(d)
      BY <1>4
    <3> QED
      BY <1>1, <3>1
  <2>2. SumOf(Tail(a)) = SumOf(a) - Head(a)
    <3> HIDE DEF a
    <3> QED
      BY <1>1, SumTail
  <2>3. Push(d, x, cap) = Tail(a)
    BY <1>1, <1>3, <1>4
  <2> HIDE DEF a
  <2> QED
    BY <1>2, <1>4, <2>1, <2>2, <2>3
<1>5. CASE Len(d) # cap
  <2>1. Push(d, x, cap) = a
    BY <1>1, <1>3, <1>5
  <2> HIDE DEF a
  <2> QED
    BY <1>2, <1>5, <2>1
<1> QED
  BY <1>4, <1>5

\* The empty sum.
LEMMA SumEmpty == SumOf(<<>>) = 0
<1>1. PICK d : d = <<>>
  OBVIOUS
<1>2. d \in Seq(Int) /\ DOMAIN d = 1..0 /\ \A i \in 1..0 : d[i] \in Int
  BY <1>1
<1>3. PICK P : P = [i \in 0..0 |-> 0]
  OBVIOUS
<1>4. Running(P, d, 0) /\ P[0] = 0
  BY <1>3 DEF Running
<1>5. SumOf(d) = P[0]
  BY <1>2, <1>4, SumIs
<1> QED
  BY <1>1, <1>4, <1>5

\* A sum of numbers that are not negative is zero when they all are.
LEMMA SumSigned ==
  ASSUME NEW d \in Seq(Nat)
  PROVE  SumOf(d) >= 0 /\ (SumOf(d) > 0 <=> \E i \in 1..Len(d) : d[i] > 0)
<1> DEFINE n == Len(d)
<1>1. n \in Nat /\ DOMAIN d = 1..n /\ \A i \in 1..n : d[i] \in Nat
  BY ElementOfSeq, LenProperties
<1> HIDE DEF n
<1>2. PICK P : Running(P, d, n)
  <2>1. \A i \in 1..n : d[i] \in Int
    BY <1>1
  <2> QED
    BY <1>1, <2>1, RunningExists
<1>3. SumOf(d) = P[n]
  <2>1. \A i \in 1..n : d[i] \in Int
    BY <1>1
  <2> QED
    BY <1>1, <1>2, <2>1, SumIs
<1>4. /\ P \in [0..n -> Int] /\ P[0] = 0
      /\ \A i \in 1..n : P[i] = P[i - 1] + d[i]
  BY <1>2 DEF Running
<1> DEFINE S == {m \in 0..n : P[m] >= 0 /\ (P[m] > 0 <=> \E i \in 1..m : d[i] > 0)}
<1>5. 0 \in S
  BY <1>1, <1>4
<1>6. ASSUME NEW m \in 1..n, m - 1 \in S PROVE m \in S
  <2>1. P[m] = P[m - 1] + d[m] /\ d[m] \in Nat /\ P[m - 1] \in Int /\ P[m - 1] >= 0
    BY <1>1, <1>4, <1>6
  <2>2. P[m - 1] > 0 <=> \E i \in 1..(m - 1) : d[i] > 0
    BY <1>6
  <2>3. P[m] >= 0 /\ (P[m] > 0 <=> P[m - 1] > 0 \/ d[m] > 0)
    BY <2>1
  <2>4. (\E i \in 1..m : d[i] > 0) <=> (\E i \in 1..(m - 1) : d[i] > 0) \/ d[m] > 0
    <3>1. 1..m = (1..(m - 1)) \cup {m}
      BY <1>1
    <3> QED
      BY <3>1
  <2>5. m \in 0..n
    BY <1>1
  <2> QED
    BY <2>2, <2>3, <2>4, <2>5
<1>7. \A m \in 0..n : m \in S
  <2> HIDE DEF S
  <2> QED
    BY <1>1, <1>5, <1>6, UpTo
<1>8. n \in S
  <2> HIDE DEF S
  <2>1. n \in 0..n
    BY <1>1
  <2> QED
    BY <1>7, <2>1
<1> QED
  BY <1>3, <1>8 DEF n

\* The largest and the smallest of a sequence.
LEMMA LargestIs ==
  ASSUME NEW xs, NEW n \in Nat \ {0}, DOMAIN xs = 1..n, \A i \in 1..n : xs[i] \in Int
  PROVE  /\ Largest(xs) \in Int /\ Smallest(xs) \in Int
         /\ \E i \in 1..n : Largest(xs) = xs[i]
         /\ \E i \in 1..n : Smallest(xs) = xs[i]
         /\ \A i \in 1..n : xs[i] <= Largest(xs) /\ xs[i] >= Smallest(xs)
<1> DEFINE S == {m \in 0..n : m = 0 \/
                   \E i, j \in 1..m : \A l \in 1..m : xs[l] <= xs[i] /\ xs[l] >= xs[j]}
<1>1. 0 \in S
  OBVIOUS
<1>2. ASSUME NEW m \in 1..n, m - 1 \in S PROVE m \in S
  <2>1. m \in 0..n /\ 1..m = (1..(m - 1)) \cup {m} /\ \A i \in 1..m : xs[i] \in Int
    OBVIOUS
  <2>2. CASE m = 1
    <3>1. 1..m = {1} /\ xs[1] \in Int
      BY <2>1, <2>2
    <3>2. \A l \in 1..m : xs[l] <= xs[1] /\ xs[l] >= xs[1]
      BY <3>1
    <3> QED
      BY <2>1, <3>1, <3>2
  <2>3. CASE m # 1
    <3>1. PICK i, j \in 1..(m - 1) : \A l \in 1..(m - 1) : xs[l] <= xs[i] /\ xs[l] >= xs[j]
      BY <1>2, <2>3
    <3>2. \E k \in 1..m : \A l \in 1..m : xs[l] <= xs[k]
      <4>1. CASE xs[m] <= xs[i]
        BY <2>1, <3>1, <4>1
      <4>2. CASE ~(xs[m] <= xs[i])
        <5>1. \A l \in 1..m : xs[l] <= xs[m]
          BY <2>1, <3>1, <4>2
        <5> QED
          BY <2>1, <5>1
      <4> QED
        BY <4>1, <4>2
    <3>3. \E k \in 1..m : \A l \in 1..m : xs[l] >= xs[k]
      <4>1. CASE xs[m] >= xs[j]
        BY <2>1, <3>1, <4>1
      <4>2. CASE ~(xs[m] >= xs[j])
        <5>1. \A l \in 1..m : xs[l] >= xs[m]
          BY <2>1, <3>1, <4>2
        <5> QED
          BY <2>1, <5>1
      <4> QED
        BY <4>1, <4>2
    <3> QED
      BY <2>1, <3>2, <3>3
  <2> QED
    BY <2>2, <2>3
<1>3. \A m \in 0..n : m \in S
  <2> HIDE DEF S
  <2> QED
    BY <1>1, <1>2, UpTo
<1>4. PICK i, j \in 1..n : \A l \in 1..n : xs[l] <= xs[i] /\ xs[l] >= xs[j]
  <2>1. n \in 0..n /\ n # 0
    OBVIOUS
  <2> QED
    BY <1>3, <2>1
<1>5. /\ Largest(xs) \in {xs[k] : k \in DOMAIN xs}
      /\ \A k \in DOMAIN xs : xs[k] <= Largest(xs)
  <2>1. \E x \in {xs[k] : k \in DOMAIN xs} : \A k \in DOMAIN xs : xs[k] <= x
    BY <1>4
  <2> QED
    BY <2>1 DEF Largest
<1>6. /\ Smallest(xs) \in {xs[k] : k \in DOMAIN xs}
      /\ \A k \in DOMAIN xs : xs[k] >= Smallest(xs)
  <2>1. \E x \in {xs[k] : k \in DOMAIN xs} : \A k \in DOMAIN xs : xs[k] >= x
    BY <1>4
  <2> QED
    BY <2>1 DEF Smallest
<1> QED
  BY <1>5, <1>6

-----------------------------------------------------------------------------
(* What an indicator has after m candles of its symbol (After): its work,  *)
(* and the values it has given.  Then kind by kind that one candle more    *)
(* takes it from m to m + 1.                                               *)

\* The kinds with a meaning of their own, and the values they give.
Valued == Vectorizable \cup {"adx", "taker", "pivot"}
Value == Int \cup Pair \cup {None}

\* What a kind gives over the first candles, for each number of them, and from when on.
Values(kind, w, cs) == [i \in DOMAIN cs |-> Meaning(kind, w, SubSeq(cs, 1, i))]
Ready(kind, w) == IF kind \in Extreme THEN 1 ELSE IF kind = "adx" THEN 2 * w ELSE w

\* What the imbalance keeps of a candle.
Taken == [buy : Int, volume : Int, missing : {0, 1}]
TakenOf(c) ==
  [buy |-> IF c.taker = None THEN 0 ELSE c.taker, volume |-> c.volume,
   missing |-> IF c.taker = None THEN 1 ELSE 0]
TakenAll(cs) == [i \in DOMAIN cs |-> TakenOf(cs[i])]
Column(d, k) == [i \in DOMAIN d |-> d[i][k]]

\* The monotonic deque after m inputs, by the prices and the positions of its
\* entries: they are of the window, each no better than those before it, and for
\* every input of the window one no worse leaves no earlier.
Spans(price, at, n, kind, xs, m, w) ==
  /\ \A i \in 1..n : at[i] \in 1..m /\ at[i] > m - w /\ price[i] = xs[at[i]]
  /\ \A i, j \in 1..n : i <= j => at[j] - at[i] >= j - i /\ ~Beats(kind, price[j], price[i])
  /\ \A p \in 1..m : p > m - w => \E i \in 1..n : at[i] >= p /\ ~Beats(kind, xs[p], price[i])
Deque(d, kind, xs, m, w) ==
  /\ d \in Seq(Int \X Int)
  /\ Spans(Column(d, 1), Column(d, 2), Len(d), kind, xs, m, w)

\* The last two pivots of the first m inputs.
Turns(ind, xs, m) ==
  LET found == Pivots(SubSeq(xs, 1, m), ind.window) IN
  /\ ind.vals = SubSeq(xs, 1, m)
  /\ ind.pairs = Cardinality(found)
  /\ found # {} => ind.p2 = Max(found) /\ ind.y2 = xs[ind.p2]
  /\ ind.pairs >= 2 => ind.p1 = Max(found \ {ind.p2}) /\ ind.y1 = xs[ind.p1]

\* What an indicator has after m of the candles.
Window(ind, xs, m) == ind.vals \in Seq(Int) /\ Holds(ind.vals, xs, 1, m, ind.window)
RollingWork(ind, cs, m) ==
  /\ Window(ind, Inputs(ind.kind, cs), m)
  /\ ind.sum = SumOf(ind.vals)
  /\ ind.prev = IF m = 0 THEN None ELSE cs[m].close
TakerWork(ind, cs, m) ==
  /\ ind.vals \in Seq(Taken) /\ Holds(ind.vals, TakenAll(cs), 1, m, ind.window)
  /\ ind.sum = SumOf(Column(ind.vals, "volume"))
  /\ ind.buys = SumOf(Column(ind.vals, "buy"))
  /\ ind.missing = SumOf(Column(ind.vals, "missing"))
Work(ind, cs, m) ==
  /\ ind.kind \in Rolling => RollingWork(ind, cs, m)
  /\ ind.kind \in Spread => Window(ind, Inputs(ind.kind, cs), m)
  /\ ind.kind \in Extreme =>
       ind.seen = m /\ Deque(ind.vals, ind.kind, Inputs(ind.kind, cs), m, ind.window)
  /\ ind.kind = "adx" => ind.seen = m
  /\ ind.kind = "taker" => TakerWork(ind, cs, m)
  /\ ind.kind = "pivot" => Turns(ind, Inputs(ind.kind, cs), m)

\* Its outputs.
Gives(ind, cs, m) ==
  LET vs == Values(ind.kind, ind.window, cs) IN
  IF ind.kind = "pivot" THEN ind.out = IF ind.pairs < 2 THEN <<>> ELSE <<vs[m]>>
  ELSE ind.out \in Seq(Value)
       /\ Holds(ind.out, vs, Ready(ind.kind, ind.window), m, Kept(ind.kind))

After(ind, spec, cs, m) ==
  /\ DOMAIN ind = Fields /\ ind.kind = spec.kind /\ ind.window = spec.window
  /\ Work(ind, cs, m) /\ Gives(ind, cs, m)

Kinds == Vectorizable \cup LoopOnly
Measuring == Vectorizable \cup {"pivot", "supertrend"}

\* The fields of a candle.
LEMMA CandleIs ==
  ASSUME NEW c \in Candle
  PROVE  /\ c.open \in Int /\ c.high \in Int /\ c.low \in Int /\ c.close \in Int
         /\ c.volume \in Int /\ c.taker \in Int \cup {None}
BY DEF Candle

\* What an indicator looks at is an integer, and all but the ranges look at one candle.
LEMMA InputIs ==
  ASSUME NEW kind \in Measuring, NEW c \in Candle, NEW prev \in Int \cup {None}
  PROVE  /\ Input(kind, c, prev) \in Int
         /\ kind \notin {"atr", "supertrend"} => Input(kind, c, prev) = Input(kind, c, None)
<1>1. c.high \in Int /\ c.low \in Int /\ c.close \in Int /\ c.volume \in Int
  BY CandleIs
<1>2. TrueRange(c, prev) \in Int
  <2>1. CASE prev = None
    BY <1>1, <2>1 DEF TrueRange
  <2>2. CASE prev # None
    <3>1. prev \in Int
      BY <2>2
    <3> DEFINE xs == <<c.high - c.low, Abs(c.high - prev), Abs(c.low - prev)>>
    <3>2. DOMAIN xs = 1..3 /\ \A i \in 1..3 : xs[i] \in Int
      BY <1>1, <3>1 DEF Abs
    <3>3. TrueRange(c, prev) = Largest(xs)
      BY <2>2 DEF TrueRange
    <3> HIDE DEF xs
    <3>4. 3 \in Nat \ {0}
      OBVIOUS
    <3> QED
      BY <3>2, <3>3, <3>4, LargestIs
  <2> QED
    BY <2>1, <2>2
<1>3. CASE kind \in {"ma", "std"}
  BY <1>1, <1>3 DEF Input
<1>4. CASE kind \in {"volume", "volstd"}
  BY <1>1, <1>4 DEF Input
<1>5. CASE kind \in {"atr", "supertrend"}
  BY <1>2, <1>5 DEF Input
<1>6. CASE kind \in {"max", "pivot"}
  BY <1>1, <1>6 DEF Input
<1>7. CASE kind = "min"
  BY <1>1, <1>7 DEF Input
<1> QED
  BY <1>3, <1>4, <1>5, <1>6, <1>7 DEF Measuring, Vectorizable, Rolling, Spread, Extreme

\* The inputs of a sequence of candles.
LEMMA InputsIs ==
  ASSUME NEW kind \in Measuring, NEW cs \in Seq(Candle)
  PROVE  /\ Inputs(kind, cs) \in Seq(Int) /\ Len(Inputs(kind, cs)) = Len(cs)
         /\ DOMAIN Inputs(kind, cs) = 1..Len(cs)
         /\ \A i \in 1..Len(cs) :
              /\ cs[i] \in Candle
              /\ Inputs(kind, cs)[i] \in Int
              /\ Inputs(kind, cs)[i] = Input(kind, cs[i], IF i = 1 THEN None ELSE cs[i - 1].close)
<1>1. Len(cs) \in Nat /\ DOMAIN cs = 1..Len(cs) /\ \A i \in 1..Len(cs) : cs[i] \in Candle
  BY ElementOfSeq, LenProperties
<1> DEFINE xs == Inputs(kind, cs)
<1>2. DOMAIN xs = 1..Len(cs)
  BY <1>1 DEF Inputs
<1>3. ASSUME NEW i \in 1..Len(cs)
      PROVE  xs[i] = Input(kind, cs[i], IF i = 1 THEN None ELSE cs[i - 1].close) /\ xs[i] \in Int
  <2>1. xs[i] = Input(kind, cs[i], IF i = 1 THEN None ELSE cs[i - 1].close)
    BY <1>1 DEF Inputs
  <2>2. PICK p : p = IF i = 1 THEN None ELSE cs[i - 1].close
    OBVIOUS
  <2>3. p \in Int \cup {None}
    <3>1. CASE i = 1
      BY <2>2, <3>1
    <3>2. CASE i # 1
      <4>1. i - 1 \in 1..Len(cs)
        BY <1>1, <3>2
      <4>2. cs[i - 1].close \in Int
        BY <1>1, <4>1, CandleIs
      <4> QED
        BY <2>2, <3>2, <4>2
    <3> QED
      BY <3>1, <3>2
  <2>4. Input(kind, cs[i], p) \in Int
    BY <1>1, <2>3, InputIs
  <2> QED
    BY <2>1, <2>2, <2>4
<1>4. xs \in Seq(Int) /\ Len(xs) = Len(cs)
  <2>1. xs = [i \in 1..Len(cs) |-> xs[i]]
    BY <1>1 DEF Inputs
  <2> HIDE DEF xs
  <2>2. xs \in [1..Len(cs) -> Int]
    BY <1>3, <2>1
  <2> QED
    BY <1>1, <2>2
<1> QED
  BY <1>1, <1>2, <1>3, <1>4

\* The first m candles, and their inputs.
LEMMA FirstOf ==
  ASSUME NEW X, NEW cs \in Seq(X), NEW m \in 0..Len(cs)
  PROVE  /\ SubSeq(cs, 1, m) \in Seq(X) /\ Len(SubSeq(cs, 1, m)) = m
         /\ \A i \in 1..m : SubSeq(cs, 1, m)[i] = cs[i]
<1>1. Len(cs) \in Nat
  OBVIOUS
<1>2. m \in Nat /\ m <= Len(cs)
  BY <1>1
<1> QED
  BY <1>1, <1>2, SubSeqProperties

\* The inputs of the first m candles are the first m inputs.
LEMMA FirstInputs ==
  ASSUME NEW kind \in Measuring, NEW cs \in Seq(Candle), NEW m \in 0..Len(cs)
  PROVE  Inputs(kind, SubSeq(cs, 1, m)) = SubSeq(Inputs(kind, cs), 1, m)
<1>1. PICK ds : ds = SubSeq(cs, 1, m)
  OBVIOUS
<1>2. ds \in Seq(Candle) /\ Len(ds) = m /\ \A i \in 1..m : ds[i] = cs[i]
  BY <1>1, FirstOf
<1>3. PICK xs : xs = Inputs(kind, cs)
  OBVIOUS
<1>4. PICK ys : ys = Inputs(kind, ds)
  OBVIOUS
<1>5. /\ xs \in Seq(Int) /\ Len(xs) = Len(cs)
      /\ \A i \in 1..Len(cs) : xs[i] = Input(kind, cs[i], IF i = 1 THEN None ELSE cs[i - 1].close)
  BY <1>3, InputsIs
<1>6. /\ ys \in Seq(Int) /\ Len(ys) = m
      /\ \A i \in 1..m : ys[i] = Input(kind, ds[i], IF i = 1 THEN None ELSE ds[i - 1].close)
  BY <1>2, <1>4, InputsIs
<1>7. PICK zs : zs = SubSeq(xs, 1, m)
  OBVIOUS
<1>8. zs \in Seq(Int) /\ Len(zs) = m /\ \A i \in 1..m : zs[i] = xs[i]
  <2>1. m \in 0..Len(xs)
    BY <1>5
  <2> QED
    BY <1>5, <1>7, <2>1, FirstOf
<1>9. ASSUME NEW i \in 1..m PROVE ys[i] = zs[i]
  <2>1. i \in 1..Len(cs)
    OBVIOUS
  <2>2. i = 1 \/ i - 1 \in 1..m
    OBVIOUS
  <2>3. (IF i = 1 THEN None ELSE cs[i - 1].close) = (IF i = 1 THEN None ELSE ds[i - 1].close)
    BY <1>2, <2>2
  <2>4. PICK p : p = IF i = 1 THEN None ELSE cs[i - 1].close
    OBVIOUS
  <2>5. xs[i] = Input(kind, cs[i], p)
    BY <1>5, <2>1, <2>4
  <2>6. ys[i] = Input(kind, ds[i], p)
    BY <1>6, <2>3, <2>4
  <2> QED
    BY <1>2, <1>8, <2>5, <2>6
<1>10. ys = zs
  <2>1. m \in Nat
    OBVIOUS
  <2> QED
    BY <1>6, <1>8, <1>9, <2>1, SeqEqual
<1> QED
  BY <1>1, <1>3, <1>4, <1>7, <1>10

\* A full window is the last of the inputs so far.
LEMMA LastIs ==
  ASSUME NEW X, NEW xs \in Seq(X), NEW w \in Nat \ {0}, NEW m \in 1..Len(xs), w <= m,
         NEW d \in Seq(X), Holds(d, xs, 1, m, w)
  PROVE  LastOf(SubSeq(xs, 1, m), w) = d /\ Len(d) = w
<1>1. m \in Nat /\ m \in 0..Len(xs) /\ Stored(1, m, w) = w
  BY DEF Stored
<1>2. Len(d) = w /\ \A i \in 1..w : d[i] = xs[m - w + i]
  BY <1>1 DEF Holds
<1>3. PICK ys : ys = SubSeq(xs, 1, m)
  OBVIOUS
<1>4. ys \in Seq(X) /\ Len(ys) = m /\ \A i \in 1..m : ys[i] = xs[i]
  BY <1>1, <1>3, FirstOf
<1>5. PICK a : a = m - w + 1
  OBVIOUS
<1>6. a \in Int /\ 1 <= a /\ a <= m /\ m - a + 1 = w
  BY <1>1, <1>5
<1>7. LastOf(ys, w) = SubSeq(ys, a, m)
  BY <1>4, <1>5 DEF LastOf
<1>8. PICK zs : zs = SubSeq(ys, a, m)
  OBVIOUS
<1>9. \A i \in a..m : ys[i] \in X
  <2>1. \A i \in a..m : i \in 1..m
    BY <1>1, <1>6
  <2>2. \A i \in 1..Len(ys) : ys[i] \in X
    BY <1>4, ElementOfSeq
  <2> QED
    BY <1>4, <2>1, <2>2
<1>10. zs \in Seq(X) /\ Len(zs) = w /\ \A i \in 1..w : zs[i] = ys[a + i - 1]
  BY <1>1, <1>6, <1>8, <1>9, SubSeqProperties
<1>11. ASSUME NEW i \in 1..w PROVE zs[i] = d[i]
  <2>1. a + i - 1 \in 1..m /\ a + i - 1 = m - w + i
    BY <1>1, <1>5, <1>6
  <2>2. zs[i] = ys[a + i - 1] /\ ys[a + i - 1] = xs[a + i - 1] /\ d[i] = xs[m - w + i]
    BY <1>2, <1>4, <1>10, <2>1
  <2> QED
    BY <2>1, <2>2
<1>12. zs = d
  BY <1>2, <1>10, <1>11, SeqEqual
<1> QED
  BY <1>2, <1>3, <1>7, <1>8, <1>12

\* What a kind over a window comes to, once there is a window.
LEMMA WindowMeaning ==
  ASSUME NEW kind \in Vectorizable, NEW cs \in Seq(Candle), NEW w \in Nat \ {0},
         NEW m \in 1..Len(cs)
  PROVE  /\ m < w => Meaning(kind, w, SubSeq(cs, 1, m)) = None
         /\ \A d \in Seq(Int) : w <= m /\ Holds(d, Inputs(kind, cs), 1, m, w) =>
              /\ kind \in Rolling => Meaning(kind, w, SubSeq(cs, 1, m)) = SumOf(d)
              /\ kind \in Spread => Meaning(kind, w, SubSeq(cs, 1, m)) = Variance(d)
              /\ kind = "max" => Meaning(kind, w, SubSeq(cs, 1, m)) = Largest(d)
              /\ kind = "min" => Meaning(kind, w, SubSeq(cs, 1, m)) = Smallest(d)
<1>1. PICK ds : ds = SubSeq(cs, 1, m)
  OBVIOUS
<1>2. m \in 0..Len(cs) /\ m \in Nat
  OBVIOUS
<1>3. Len(ds) = m
  BY <1>1, <1>2, FirstOf
<1>4. PICK ys : ys = Inputs(kind, ds)
  OBVIOUS
<1>5. kind \notin {"taker", "adx", "pivot"}
  BY DEF Vectorizable, Rolling, Spread, Extreme
<1>6. /\ m < w => Meaning(kind, w, ds) = None
      /\ kind \in Rolling /\ ~(m < w) => Meaning(kind, w, ds) = SumOf(LastOf(ys, w))
      /\ kind \in Spread /\ ~(m < w) => Meaning(kind, w, ds) = Variance(LastOf(ys, w))
      /\ kind = "max" /\ ~(m < w) => Meaning(kind, w, ds) = Largest(LastOf(ys, w))
      /\ kind = "min" /\ ~(m < w) => Meaning(kind, w, ds) = Smallest(LastOf(ys, w))
  <2>1. kind # "pivot" /\ kind # "adx" /\ kind # "taker"
    BY <1>5
  <2>2. m < w => Meaning(kind, w, ds) = None
    BY <1>3, <2>1 DEF Meaning
  <2>3. kind \in Rolling /\ ~(m < w) => Meaning(kind, w, ds) = SumOf(LastOf(ys, w))
    BY <1>3, <1>4, <2>1 DEF Meaning, Rolling, Spread
  <2>4. kind \in Spread /\ ~(m < w) => Meaning(kind, w, ds) = Variance(LastOf(ys, w))
    BY <1>3, <1>4, <2>1 DEF Meaning, Rolling, Spread
  <2>5. kind = "max" /\ ~(m < w) => Meaning(kind, w, ds) = Largest(LastOf(ys, w))
    BY <1>3, <1>4, <2>1 DEF Meaning, Rolling, Spread
  <2>6. kind = "min" /\ ~(m < w) => Meaning(kind, w, ds) = Smallest(LastOf(ys, w))
    BY <1>3, <1>4, <2>1 DEF Meaning, Rolling, Spread
  <2> QED
    BY <2>2, <2>3, <2>4, <2>5, <2>6
<1>7. ASSUME NEW d \in Seq(Int), w <= m, Holds(d, Inputs(kind, cs), 1, m, w)
      PROVE  /\ kind \in Rolling => Meaning(kind, w, ds) = SumOf(d)
             /\ kind \in Spread => Meaning(kind, w, ds) = Variance(d)
             /\ kind = "max" => Meaning(kind, w, ds) = Largest(d)
             /\ kind = "min" => Meaning(kind, w, ds) = Smallest(d)
  <2>1. kind \in Measuring
    BY DEF Measuring
  <2>2. PICK xs : xs = Inputs(kind, cs)
    OBVIOUS
  <2>3. xs \in Seq(Int) /\ Len(xs) = Len(cs)
    BY <2>1, <2>2, InputsIs
  <2>4. ys = SubSeq(xs, 1, m)
    BY <1>1, <1>2, <1>4, <2>1, <2>2, FirstInputs
  <2>5. m \in 1..Len(xs) /\ Holds(d, xs, 1, m, w)
    BY <1>7, <2>2, <2>3
  <2>6. LastOf(SubSeq(xs, 1, m), w) = d
    BY <1>7, <2>3, <2>5, LastIs
  <2>7. LastOf(ys, w) = d /\ ~(m < w)
    BY <1>7, <2>4, <2>6
  <2> QED
    BY <1>5, <1>6, <2>7 DEF Rolling, Spread
<1> QED
  BY <1>1, <1>3, <1>6, <1>7

\* Variances are integers.
LEMMA VarianceInt ==
  ASSUME NEW d \in Seq(Int)
  PROVE  Variance(d) \in Int
<1>1. DOMAIN d = 1..Len(d) /\ Len(d) \in Nat /\ \A i \in 1..Len(d) : d[i] \in Int
  BY ElementOfSeq, LenProperties
<1>2. PICK e : e = [i \in DOMAIN d |-> d[i] * d[i]]
  OBVIOUS
<1>3. e \in Seq(Int)
  <2>1. \A i \in 1..Len(d) : d[i] * d[i] \in Int
    BY <1>1
  <2>2. e \in [1..Len(d) -> Int]
    BY <1>1, <1>2, <2>1
  <2> QED
    BY <1>1, <2>2
<1>4. PICK a, b : a = SumOf(e) /\ b = SumOf(d)
  OBVIOUS
<1>5. a \in Int /\ b \in Int
  BY <1>3, <1>4, SumInt
<1>6. Variance(d) = Len(d) * a - b * b
  BY <1>2, <1>4 DEF Variance
<1> QED
  BY <1>1, <1>5, <1>6

\* A value given for the m-th candle.
LEMMA ValueAt ==
  ASSUME NEW kind, NEW w, NEW cs \in Seq(Candle), NEW m \in 1..Len(cs)
  PROVE  Values(kind, w, cs)[m] = Meaning(kind, w, SubSeq(cs, 1, m))
<1>1. DOMAIN cs = 1..Len(cs)
  BY LenProperties
<1> QED
  BY <1>1 DEF Values

\* Nothing is kept of values that are not there yet.
LEMMA NotReady ==
  ASSUME NEW d, NEW f, NEW lo \in Nat \ {0}, NEW m \in Nat \ {0}, NEW cap, m < lo,
         Holds(d, f, lo, m - 1, cap)
  PROVE  Holds(d, f, lo, m, cap)
<1>1. Stored(lo, m - 1, cap) = 0 /\ Stored(lo, m, cap) = 0
  BY DEF Stored
<1> QED
  BY <1>1 DEF Holds

\* The value of a candle joins the outputs.
LEMMA EmitGives ==
  ASSUME NEW ind, DOMAIN ind = Fields, ind.kind \in Valued \ {"pivot"}, ind.window \in Nat \ {0},
         NEW cs \in Seq(Candle), NEW m \in 1..Len(cs),
         Gives(ind, cs, m - 1), Ready(ind.kind, ind.window) <= m,
         NEW v \in Value, v = Meaning(ind.kind, ind.window, SubSeq(cs, 1, m)),
         NEW e, e = Emit(ind, v)
  PROVE  Gives(e, cs, m)
<1>1. PICK vs : vs = Values(ind.kind, ind.window, cs)
  OBVIOUS
<1>2. PICK lo : lo = Ready(ind.kind, ind.window)
  OBVIOUS
<1>3. PICK cap : cap = Kept(ind.kind)
  OBVIOUS
<1>4. PICK d : d = ind.out
  OBVIOUS
<1>5. lo \in Nat \ {0} /\ lo <= m /\ m \in Nat \ {0}
  BY <1>2 DEF Ready
<1>6. cap \in Nat \ {0}
  BY <1>3, HistoryAssumption DEF Kept
<1>7. v = vs[m]
  BY <1>1, ValueAt
<1>8. d \in Seq(Value) /\ Holds(d, vs, lo, m - 1, cap)
  BY <1>1, <1>2, <1>3, <1>4 DEF Gives
<1>9. e.out = Push(d, v, cap) /\ e.kind = ind.kind /\ e.window = ind.window
  BY <1>3, <1>4, EmitIs
<1>10. PICK p : p = Push(d, v, cap)
  OBVIOUS
<1>11. p \in Seq(Value) /\ Holds(p, vs, lo, m, cap)
  BY <1>5, <1>6, <1>7, <1>8, <1>10, PushHolds
<1> QED
  BY <1>1, <1>2, <1>3, <1>9, <1>10, <1>11 DEF Gives

\* A candle that gives no value.
LEMMA NoneGiven ==
  ASSUME NEW ind, ind.kind \in Valued \ {"pivot"}, ind.window \in Nat \ {0},
         NEW cs \in Seq(Candle), NEW m \in 1..Len(cs),
         Gives(ind, cs, m - 1), m < Ready(ind.kind, ind.window),
         NEW e, e.out = ind.out, e.kind = ind.kind, e.window = ind.window
  PROVE  Gives(e, cs, m)
<1>1. PICK vs : vs = Values(ind.kind, ind.window, cs)
  OBVIOUS
<1>2. PICK lo : lo = Ready(ind.kind, ind.window)
  OBVIOUS
<1>3. PICK cap : cap = Kept(ind.kind)
  OBVIOUS
<1>4. PICK d : d = ind.out
  OBVIOUS
<1>5. lo \in Nat \ {0} /\ m < lo /\ m \in Nat \ {0}
  BY <1>2 DEF Ready
<1>6. d \in Seq(Value) /\ Holds(d, vs, lo, m - 1, cap)
  BY <1>1, <1>2, <1>3, <1>4 DEF Gives
<1>7. Holds(d, vs, lo, m, cap)
  BY <1>5, <1>6, NotReady
<1> QED
  BY <1>1, <1>2, <1>3, <1>4, <1>6, <1>7 DEF Gives

\* The update of each kind.
LEMMA UpdateIs ==
  ASSUME NEW ind, NEW c, NEW position
  PROVE  /\ ind.kind \in Rolling => Update(ind, c, position) = UpdateRolling(ind, c)
         /\ ind.kind \in Spread => Update(ind, c, position) = UpdateSpread(ind, c)
         /\ ind.kind \in Extreme => Update(ind, c, position) = UpdateExtreme(ind, c)
         /\ ind.kind = "adx" => Update(ind, c, position) = UpdateADX(ind, c)
         /\ ind.kind = "taker" => Update(ind, c, position) = UpdateTaker(ind, c)
         /\ ind.kind = "pivot" => Update(ind, c, position) = UpdatePivot(ind, c)
<1>1. ind.kind \in Rolling => Update(ind, c, position) = UpdateRolling(ind, c)
  BY DEF Update, Rolling, Spread, Extreme
<1>2. ind.kind \in Spread => Update(ind, c, position) = UpdateSpread(ind, c)
  BY DEF Update, Rolling, Spread, Extreme
<1>3. ind.kind \in Extreme => Update(ind, c, position) = UpdateExtreme(ind, c)
  BY DEF Update, Rolling, Spread, Extreme
<1>4. ind.kind = "adx" => Update(ind, c, position) = UpdateADX(ind, c)
  BY DEF Update, Rolling, Spread, Extreme
<1>5. ind.kind = "taker" => Update(ind, c, position) = UpdateTaker(ind, c)
  BY DEF Update, Rolling, Spread, Extreme
<1>6. ind.kind = "pivot" => Update(ind, c, position) = UpdatePivot(ind, c)
  BY DEF Update, Rolling, Spread, Extreme
<1> QED
  BY <1>1, <1>2, <1>3, <1>4, <1>5, <1>6

\* A window with one more input.
LEMMA WindowNext ==
  ASSUME NEW d \in Seq(Int), NEW xs \in Seq(Int), NEW m \in 1..Len(xs), NEW w \in Nat \ {0},
         Holds(d, xs, 1, m - 1, w), NEW e, e = Push(d, xs[m], w)
  PROVE  /\ e \in Seq(Int) /\ Holds(e, xs, 1, m, w) /\ Len(d) <= w
         /\ Len(e) = w <=> w <= m
<1>1. m \in Nat \ {0} /\ 1 \in Nat \ {0} /\ 1 <= m
  OBVIOUS
<1>2. xs[m] \in Int
  BY ElementOfSeq
<1>3. PICK x \in Int : x = xs[m]
  BY <1>2
<1>4. e = Push(d, x, w)
  BY <1>3
<1>5. e \in Seq(Int) /\ Holds(e, xs, 1, m, w) /\ Len(d) <= w
  BY <1>1, <1>3, <1>4, PushHolds
<1>6. Len(e) = Stored(1, m, w)
  BY <1>5 DEF Holds
<1>7. Len(e) = w <=> w <= m
  BY <1>1, <1>6 DEF Stored
<1> QED
  BY <1>5, <1>7

\* One more candle for a sum that slides.
LEMMA RollingNext ==
  ASSUME NEW ind, NEW spec, NEW cs \in Seq(Candle), NEW m \in 1..Len(cs), NEW position,
         ind.kind \in Rolling, ind.window \in Nat \ {0}, After(ind, spec, cs, m - 1)
  PROVE  After(Update(ind, cs[m], position), spec, cs, m)
<1>1. PICK kind, w, xs : kind = ind.kind /\ w = ind.window /\ xs = Inputs(kind, cs)
  OBVIOUS
<1>2. /\ kind \in Measuring /\ kind \in Vectorizable /\ kind \in Valued \ {"pivot"}
      /\ kind \notin Spread /\ kind \notin Extreme
      /\ kind # "adx" /\ kind # "taker" /\ kind # "pivot"
      /\ Ready(kind, w) = w
  BY <1>1 DEF Measuring, Valued, Vectorizable, Rolling, Spread, Extreme, Ready
<1>3. /\ xs \in Seq(Int) /\ Len(xs) = Len(cs)
      /\ cs[m] \in Candle /\ xs[m] \in Int
      /\ xs[m] = Input(kind, cs[m], IF m = 1 THEN None ELSE cs[m - 1].close)
  BY <1>1, <1>2, InputsIs
<1>4. /\ DOMAIN ind = Fields /\ ind.kind = spec.kind /\ ind.window = spec.window
      /\ Gives(ind, cs, m - 1)
      /\ ind.vals \in Seq(Int) /\ Holds(ind.vals, xs, 1, m - 1, w)
      /\ ind.sum = SumOf(ind.vals)
      /\ ind.prev = IF m - 1 = 0 THEN None ELSE cs[m - 1].close
  BY <1>1 DEF After, Work, RollingWork, Window
<1>5. PICK x \in Int : x = Input(kind, cs[m], ind.prev) /\ x = xs[m]
  BY <1>3, <1>4
<1>6. PICK c : c = cs[m].close
  OBVIOUS
<1>7. PICK next : next = [Slide(ind, x) EXCEPT !.prev = c]
  OBVIOUS
<1>8. /\ DOMAIN next = Fields
      /\ next.sum = ind.sum - (IF Len(ind.vals) = w THEN Head(ind.vals) ELSE 0) + x
      /\ next.vals = Push(ind.vals, x, w) /\ next.prev = cs[m].close
      /\ next.kind = ind.kind /\ next.window = ind.window /\ next.out = ind.out
  <2>1. /\ DOMAIN next = Fields
        /\ next.sum = ind.sum - (IF Len(ind.vals) = ind.window THEN Head(ind.vals) ELSE 0) + x
        /\ next.vals = Push(ind.vals, x, ind.window) /\ next.prev = c
        /\ next.kind = ind.kind /\ next.window = ind.window /\ next.out = ind.out
    <3>1. DOMAIN ind = Fields
      BY <1>4
    <3> QED
      BY <1>7, <3>1 DEF Slide, Fields
  <2> QED
    BY <1>1, <1>6, <2>1
<1>9. /\ next.vals \in Seq(Int) /\ Holds(next.vals, xs, 1, m, w) /\ Len(ind.vals) <= w
      /\ Len(next.vals) = w <=> w <= m
  <2>1. m \in 1..Len(xs) /\ next.vals = Push(ind.vals, xs[m], w) /\ w \in Nat \ {0}
    BY <1>1, <1>3, <1>5, <1>8
  <2> QED
    BY <1>3, <1>4, <2>1, WindowNext
<1>10. next.sum = SumOf(next.vals)
  <2>1. w \in Nat \ {0}
    BY <1>1
  <2>2. PICK d : d = ind.vals
    OBVIOUS
  <2>3. d \in Seq(Int) /\ Len(d) <= w
    BY <1>4, <1>9, <2>2
  <2>4. /\ Len(d) = w => SumOf(Push(d, x, w)) = SumOf(d) - Head(d) + x
        /\ Len(d) # w => SumOf(Push(d, x, w)) = SumOf(d) - 0 + x
    BY <2>1, <2>3, SumPush
  <2> QED
    BY <1>4, <1>8, <2>2, <2>4
<1>11. Update(ind, cs[m], position) = IF w <= m THEN Emit(next, next.sum) ELSE next
  <2>1. Update(ind, cs[m], position) = UpdateRolling(ind, cs[m])
    BY UpdateIs
  <2>2. UpdateRolling(ind, cs[m]) = IF Warm(next) THEN Emit(next, next.sum) ELSE next
    BY <1>1, <1>5, <1>7, <1>6 DEF UpdateRolling
  <2>3. Warm(next) <=> w <= m
    BY <1>1, <1>8, <1>9 DEF Warm
  <2> QED
    BY <2>1, <2>2, <2>3
<1>12. PICK e : e = Update(ind, cs[m], position)
  OBVIOUS
<1>13. /\ DOMAIN e = Fields /\ e.kind = kind /\ e.window = w /\ e.vals = next.vals
       /\ e.sum = next.sum /\ e.prev = cs[m].close
  <2>1. CASE w <= m
    <3>1. e = Emit(next, next.sum)
      BY <1>11, <1>12, <2>1
    <3> QED
      BY <1>1, <1>8, <3>1, EmitIs
  <2>2. CASE ~(w <= m)
    <3>1. e = next
      BY <1>11, <1>12, <2>2
    <3> QED
      BY <1>1, <1>8, <3>1
  <2> QED
    BY <2>1, <2>2
<1>14. Work(e, cs, m)
  <2>1. m # 0
    OBVIOUS
  <2>2. RollingWork(e, cs, m)
    BY <1>1, <1>9, <1>10, <1>13, <2>1 DEF RollingWork, Window
  <2> QED
    BY <1>2, <1>13, <2>2 DEF Work
<1>15. Gives(next, cs, m - 1)
  BY <1>2, <1>4, <1>1, <1>8 DEF Gives
<1>16. Gives(e, cs, m)
  <2>1. w \in Nat \ {0} /\ next.kind \in Valued \ {"pivot"} /\ next.window \in Nat \ {0}
        /\ Ready(next.kind, next.window) = w
    BY <1>1, <1>2, <1>8
  <2>2. CASE w <= m
    <3>1. PICK v : v = next.sum
      OBVIOUS
    <3>2. v = Meaning(kind, w, SubSeq(cs, 1, m))
      BY <1>1, <1>2, <1>9, <1>10, <2>1, <2>2, <3>1, WindowMeaning
    <3>3. v \in Value
      BY <1>9, <1>10, <3>1, SumInt DEF Value
    <3>4. e = Emit(next, v)
      BY <1>11, <1>12, <2>2, <3>1
    <3>5. /\ v = Meaning(next.kind, next.window, SubSeq(cs, 1, m))
          /\ Ready(next.kind, next.window) <= m
      BY <1>1, <1>8, <2>1, <2>2, <3>2
    <3> QED
      BY <1>8, <1>15, <2>1, <3>3, <3>4, <3>5, EmitGives
  <2>3. CASE ~(w <= m)
    <3>1. e = next
      BY <1>11, <1>12, <2>3
    <3>2. m < Ready(next.kind, next.window)
      BY <2>1, <2>3
    <3> QED
      BY <1>15, <2>1, <3>1, <3>2, NoneGiven
  <2> QED
    BY <2>2, <2>3
<1> QED
  BY <1>1, <1>4, <1>12, <1>13, <1>14, <1>16 DEF After

\* A candle after which an indicator gives its value, once it has one.
GivesOnce(ind, e, v, lo, m) == IF lo <= m THEN e = Emit(ind, v) ELSE e = ind
SameWork(ind, e) ==
  /\ DOMAIN e = Fields
  /\ e.kind = ind.kind /\ e.window = ind.window /\ e.seen = ind.seen /\ e.vals = ind.vals
  /\ e.sum = ind.sum /\ e.prev = ind.prev /\ e.buys = ind.buys /\ e.missing = ind.missing
  /\ e.p1 = ind.p1 /\ e.y1 = ind.y1 /\ e.p2 = ind.p2 /\ e.y2 = ind.y2 /\ e.pairs = ind.pairs
\* After such a candle the outputs are those of one candle more.
LEMMA Given ==
  ASSUME NEW ind, DOMAIN ind = Fields, ind.kind \in Valued \ {"pivot"}, ind.window \in Nat \ {0},
         NEW cs \in Seq(Candle), NEW m \in 1..Len(cs), Gives(ind, cs, m - 1),
         NEW v, Ready(ind.kind, ind.window) <= m =>
                  v \in Value /\ v = Meaning(ind.kind, ind.window, SubSeq(cs, 1, m)),
         NEW e, GivesOnce(ind, e, v, Ready(ind.kind, ind.window), m)
  PROVE  Gives(e, cs, m) /\ SameWork(ind, e)
<1>1. CASE Ready(ind.kind, ind.window) <= m
  <2>1. e = Emit(ind, v) /\ v \in Value /\ v = Meaning(ind.kind, ind.window, SubSeq(cs, 1, m))
    BY <1>1 DEF GivesOnce
  <2>2. Gives(e, cs, m)
    BY <1>1, <2>1, EmitGives
  <2> QED
    BY <2>1, <2>2, EmitIs DEF SameWork
<1>2. CASE ~(Ready(ind.kind, ind.window) <= m)
  <2>1. e = ind
    BY <1>2 DEF GivesOnce
  <2>2. m < Ready(ind.kind, ind.window)
    <3>1. Ready(ind.kind, ind.window) \in Nat /\ m \in Nat
      BY DEF Ready
    <3> QED
      BY <1>2, <3>1
  <2>3. Gives(e, cs, m)
    BY <2>1, <2>2, NoneGiven
  <2> QED
    BY <2>1, <2>3 DEF SameWork
<1> QED
  BY <1>1, <1>2

\* The outputs do not depend on the work.
LEMMA GivesSame ==
  ASSUME NEW ind, NEW cs, NEW m, Gives(ind, cs, m), ind.kind # "pivot",
         NEW e, e.kind = ind.kind, e.window = ind.window, e.out = ind.out
  PROVE  Gives(e, cs, m)
BY DEF Gives

\* One more candle for a window that is looked at afresh.
LEMMA SpreadNext ==
  ASSUME NEW ind, NEW spec, NEW cs \in Seq(Candle), NEW m \in 1..Len(cs), NEW position,
         ind.kind \in Spread, ind.window \in Nat \ {0}, After(ind, spec, cs, m - 1)
  PROVE  After(Update(ind, cs[m], position), spec, cs, m)
<1>1. PICK kind, w, xs : kind = ind.kind /\ w = ind.window /\ xs = Inputs(kind, cs)
  OBVIOUS
<1>2. /\ kind \in Measuring /\ kind \in Vectorizable /\ kind \in Valued \ {"pivot"}
      /\ kind \notin Rolling /\ kind \notin Extreme
      /\ kind # "adx" /\ kind # "taker" /\ kind # "pivot"
      /\ kind \notin {"atr", "supertrend"} /\ Ready(kind, w) = w
  BY <1>1 DEF Measuring, Valued, Vectorizable, Rolling, Spread, Extreme, Ready
<1>3. /\ xs \in Seq(Int) /\ Len(xs) = Len(cs)
      /\ cs[m] \in Candle /\ xs[m] \in Int
      /\ xs[m] = Input(kind, cs[m], None)
  <2>1. /\ xs \in Seq(Int) /\ Len(xs) = Len(cs)
        /\ cs[m] \in Candle /\ xs[m] \in Int
        /\ xs[m] = Input(kind, cs[m], IF m = 1 THEN None ELSE cs[m - 1].close)
    BY <1>1, <1>2, InputsIs
  <2>2. PICK p : p = IF m = 1 THEN None ELSE cs[m - 1].close
    OBVIOUS
  <2>3. p \in Int \cup {None}
    <3>1. m # 1 => m - 1 \in 1..Len(cs)
      OBVIOUS
    <3>2. \A i \in 1..Len(cs) : cs[i].close \in Int
      BY ElementOfSeq, CandleIs
    <3> QED
      BY <2>2, <3>1, <3>2
  <2>4. Input(kind, cs[m], p) = Input(kind, cs[m], None)
    BY <1>2, <2>1, <2>3, InputIs
  <2> QED
    BY <2>1, <2>2, <2>4
<1>4. /\ DOMAIN ind = Fields /\ ind.kind = spec.kind /\ ind.window = spec.window
      /\ Gives(ind, cs, m - 1)
      /\ ind.vals \in Seq(Int) /\ Holds(ind.vals, xs, 1, m - 1, w)
  BY <1>1 DEF After, Work, Window
<1>5. PICK p : p = Push(ind.vals, xs[m], w)
  OBVIOUS
<1>6. PICK next : next = [ind EXCEPT !.vals = p]
  OBVIOUS
<1>7. /\ DOMAIN next = Fields /\ next.vals = p
      /\ next.kind = ind.kind /\ next.window = ind.window /\ next.out = ind.out
  BY <1>4, <1>6 DEF Fields
<1>8. p \in Seq(Int) /\ Holds(p, xs, 1, m, w) /\ (Len(p) = w <=> w <= m)
  <2>1. m \in 1..Len(xs) /\ w \in Nat \ {0}
    BY <1>1, <1>3
  <2>2. PICK d : d = ind.vals
    OBVIOUS
  <2>3. d \in Seq(Int) /\ Holds(d, xs, 1, m - 1, w) /\ p = Push(d, xs[m], w)
    BY <1>4, <1>5, <2>2
  <2> QED
    BY <1>3, <2>1, <2>3, WindowNext
<1>9. PICK v : v = Variance(p)
  OBVIOUS
<1>10. PICK e : e = Update(ind, cs[m], position)
  OBVIOUS
<1>11. GivesOnce(next, e, v, Ready(next.kind, next.window), m)
  <2>1. e = UpdateSpread(ind, cs[m])
    BY <1>10, UpdateIs
  <2>2. UpdateSpread(ind, cs[m]) = IF Warm(next) THEN Emit(next, v) ELSE next
    <3>1. next = [ind EXCEPT !.vals = Push(@, Input(ind.kind, cs[m], None), ind.window)]
      BY <1>1, <1>3, <1>5, <1>6
    <3>2. v = Variance(next.vals)
      BY <1>7, <1>9
    <3> HIDE DEF Emit
    <3> QED
      BY <3>1, <3>2 DEF UpdateSpread
  <2>3. Warm(next) <=> w <= m
    BY <1>1, <1>7, <1>8 DEF Warm
  <2>4. Ready(next.kind, next.window) = w
    BY <1>1, <1>2, <1>7
  <2> QED
    BY <2>1, <2>2, <2>3, <2>4 DEF GivesOnce
<1>12. Ready(next.kind, next.window) <= m =>
         v \in Value /\ v = Meaning(next.kind, next.window, SubSeq(cs, 1, m))
  <2> SUFFICES ASSUME Ready(next.kind, next.window) <= m
               PROVE v \in Value /\ v = Meaning(next.kind, next.window, SubSeq(cs, 1, m))
    OBVIOUS
  <2>1. w <= m /\ w \in Nat \ {0}
    BY <1>1, <1>2, <1>7
  <2>2. v = Meaning(kind, w, SubSeq(cs, 1, m))
    BY <1>1, <1>2, <1>8, <1>9, <2>1, WindowMeaning
  <2>3. v \in Value
    BY <1>8, <1>9, VarianceInt DEF Value
  <2> QED
    BY <1>1, <1>7, <2>2, <2>3
<1>13. Gives(e, cs, m) /\ SameWork(next, e)
  <2>1. Gives(next, cs, m - 1)
    BY <1>1, <1>2, <1>4, <1>7, GivesSame
  <2>2. next.kind \in Valued \ {"pivot"} /\ next.window \in Nat \ {0} /\ DOMAIN next = Fields
    BY <1>1, <1>2, <1>7
  <2> QED
    BY <1>11, <1>12, <2>1, <2>2, Given
<1>14. e.vals = p /\ e.kind = kind /\ e.window = w /\ DOMAIN e = Fields
  BY <1>1, <1>7, <1>13 DEF SameWork
<1>15. Work(e, cs, m)
  BY <1>1, <1>2, <1>8, <1>14 DEF Work, Window
<1> QED
  BY <1>1, <1>4, <1>10, <1>13, <1>14, <1>15 DEF After

\* One more candle that is only counted.
LEMMA ADXNext ==
  ASSUME NEW ind, NEW spec, NEW cs \in Seq(Candle), NEW m \in 1..Len(cs), NEW position,
         ind.kind = "adx", ind.window \in Nat \ {0}, After(ind, spec, cs, m - 1)
  PROVE  After(Update(ind, cs[m], position), spec, cs, m)
<1>1. /\ DOMAIN ind = Fields /\ ind.kind = spec.kind /\ ind.window = spec.window
      /\ Gives(ind, cs, m - 1) /\ ind.seen = m - 1
  BY DEF After, Work
<1>2. m \in Nat \ {0} /\ (m - 1) + 1 = m
  OBVIOUS
<1>3. PICK next : next = [ind EXCEPT !.seen = m]
  OBVIOUS
<1>4. /\ DOMAIN next = Fields /\ next.seen = m
      /\ next.kind = ind.kind /\ next.window = ind.window /\ next.out = ind.out
  BY <1>1, <1>3 DEF Fields
<1>5. PICK w : w = ind.window
  OBVIOUS
<1>6. Ready(next.kind, next.window) = 2 * w /\ w \in Nat \ {0}
  BY <1>4, <1>5 DEF Ready, Extreme
<1>7. PICK e : e = Update(ind, cs[m], position)
  OBVIOUS
<1>8. GivesOnce(next, e, m, Ready(next.kind, next.window), m)
  <2>1. e = UpdateADX(ind, cs[m])
    BY <1>7, UpdateIs
  <2>2. next = [ind EXCEPT !.seen = @ + 1]
    BY <1>1, <1>2, <1>3
  <2>3. UpdateADX(ind, cs[m]) = IF m - 1 < 1 \/ m - 1 - w + 1 < w THEN next ELSE Emit(next, m)
    BY <1>4, <1>5, <2>2 DEF UpdateADX
  <2>4. (m - 1 < 1 \/ m - 1 - w + 1 < w) <=> ~(2 * w <= m)
    BY <1>2, <1>6
  <2> QED
    BY <1>6, <2>1, <2>3, <2>4 DEF GivesOnce
<1>9. Ready(next.kind, next.window) <= m =>
        m \in Value /\ m = Meaning(next.kind, next.window, SubSeq(cs, 1, m))
  <2> SUFFICES ASSUME 2 * w <= m PROVE m = Meaning("adx", w, SubSeq(cs, 1, m)) /\ m \in Value
    BY <1>4, <1>5, <1>6
  <2>1. PICK ds : ds = SubSeq(cs, 1, m)
    OBVIOUS
  <2>2. Len(ds) = m
    BY <1>2, <2>1, FirstOf
  <2>3. Meaning("adx", w, ds) = IF Len(ds) < 2 * w THEN None ELSE Len(ds)
    BY DEF Meaning
  <2>4. ~(m < 2 * w)
    BY <1>2, <1>6
  <2> QED
    BY <1>2, <2>1, <2>2, <2>3, <2>4 DEF Value
<1>10. Gives(e, cs, m) /\ SameWork(next, e)
  <2>1. Gives(next, cs, m - 1)
    BY <1>1, <1>4, GivesSame
  <2>2. next.kind \in Valued \ {"pivot"} /\ next.window \in Nat \ {0} /\ DOMAIN next = Fields
    BY <1>1, <1>4 DEF Valued
  <2> QED
    BY <1>8, <1>9, <2>1, <2>2, Given
<1>11. e.seen = m /\ e.kind = "adx" /\ e.window = ind.window /\ DOMAIN e = Fields
  BY <1>4, <1>10 DEF SameWork
<1>12. Work(e, cs, m)
  BY <1>11 DEF Work, Rolling, Spread, Extreme
<1> QED
  BY <1>1, <1>7, <1>10, <1>11, <1>12 DEF After

-----------------------------------------------------------------------------
(* The monotonic deque of a running extreme: its entries span the window.  *)

\* To beat another price is an order.
LEMMA BeatsIs ==
  ASSUME NEW kind \in Extreme
  PROVE  /\ \A x, y, z \in Int : ~Beats(kind, x, y) /\ ~Beats(kind, y, z) => ~Beats(kind, x, z)
         /\ \A x, y \in Int : Beats(kind, x, y) => ~Beats(kind, y, x)
         /\ \A x \in Int : ~Beats(kind, x, x)
<1>1. CASE kind = "max"
  BY <1>1 DEF Beats
<1>2. CASE kind # "max"
  BY <1>2 DEF Beats
<1> QED
  BY <1>1, <1>2

\* Integers up to m; the entries of n that x leaves; those with a new one; all but the first.
Integral(xs, m) == \A p \in 1..m : xs[p] \in Int
Leaves(kind, x, price, l, n) ==
  /\ l # 0 => ~Beats(kind, x, price[l])
  /\ \A i \in 1..n : i > l => Beats(kind, x, price[i])
Joins(cost, pos, price, at, l, x, m) ==
  /\ cost[l + 1] = x /\ pos[l + 1] = m
  /\ \A i \in 1..l : cost[i] = price[i] /\ pos[i] = at[i]
Shifted(cost, pos, price, at, n) ==
  \A i \in 1..n - 1 : cost[i] = price[i + 1] /\ pos[i] = at[i + 1]

\* The entries a new price leaves, and the new one: of a window that is one longer.
LEMMA SpansMore ==
  ASSUME NEW kind \in Extreme, NEW w \in Nat, NEW r \in Nat, NEW n \in Nat,
         NEW xs, Integral(xs, r + 1),
         NEW price, NEW at, Spans(price, at, n, kind, xs, r, w),
         NEW l \in 0..n, Leaves(kind, xs[r + 1], price, l, n),
         NEW cost, NEW pos, Joins(cost, pos, price, at, l, xs[r + 1], r + 1)
  PROVE  Spans(cost, pos, l + 1, kind, xs, r + 1, w + 1)
<1>1. \A p \in 1..r + 1 : xs[p] \in Int
  BY DEF Integral
<1>2. /\ l # 0 => ~Beats(kind, xs[r + 1], price[l])
      /\ \A i \in 1..n : i > l => Beats(kind, xs[r + 1], price[i])
  BY DEF Leaves
<1>3. /\ cost[l + 1] = xs[r + 1] /\ pos[l + 1] = r + 1
      /\ \A i \in 1..l : cost[i] = price[i] /\ pos[i] = at[i]
  BY DEF Joins
<1>4. PICK x \in Int : x = xs[r + 1]
  <2>1. r + 1 \in 1..r + 1
    OBVIOUS
  <2> QED
    BY <1>1, <2>1
<1>5. /\ \A i \in 1..n : at[i] \in 1..r /\ at[i] > r - w /\ price[i] = xs[at[i]]
      /\ \A i, j \in 1..n : i <= j => at[j] - at[i] >= j - i /\ ~Beats(kind, price[j], price[i])
      /\ \A p \in 1..r : p > r - w => \E i \in 1..n : at[i] >= p /\ ~Beats(kind, xs[p], price[i])
  BY DEF Spans
<1>6. \A i \in 1..n : price[i] \in Int
  <2> SUFFICES ASSUME NEW i \in 1..n PROVE price[i] \in Int
    OBVIOUS
  <2>1. at[i] \in 1..r + 1 /\ price[i] = xs[at[i]]
    BY <1>5
  <2> QED
    BY <1>1, <2>1
<1>7. l \in Nat /\ l + 1 \in 1..l + 1 /\ 1..l \subseteq 1..n /\ (l # 0 => l \in 1..n /\ l \in 1..l)
  OBVIOUS
<1>8. \A i \in 1..l + 1 : i = l + 1 \/ i \in 1..l
  OBVIOUS
<1>9. ASSUME NEW i \in 1..l + 1
      PROVE  pos[i] \in 1..r + 1 /\ pos[i] > (r + 1) - (w + 1) /\ cost[i] = xs[pos[i]]
  <2>1. CASE i = l + 1
    BY <1>3, <2>1
  <2>2. CASE i \in 1..l
    <3>1. pos[i] = at[i] /\ cost[i] = price[i] /\ i \in 1..n
      BY <1>7, <1>3, <2>2
    <3>2. at[i] \in 1..r /\ at[i] > r - w /\ price[i] = xs[at[i]]
      BY <1>5, <3>1
    <3>3. at[i] \in 1..r + 1 /\ at[i] > (r + 1) - (w + 1)
      BY <3>2
    <3> QED
      BY <3>1, <3>2, <3>3
  <2> QED
    BY <1>8, <2>1, <2>2
<1>10. ASSUME NEW i \in 1..l + 1, NEW j \in 1..l + 1, i <= j
      PROVE  pos[j] - pos[i] >= j - i /\ ~Beats(kind, cost[j], cost[i])
  <2>1. CASE i = l + 1
    <3>1. j = l + 1
      BY <1>7, <1>8, <1>10, <2>1
    <3>2. ~Beats(kind, x, x)
      BY BeatsIs
    <3> QED
      BY <1>4, <1>3, <2>1, <3>1, <3>2
  <2>2. CASE i \in 1..l /\ j = l + 1
    <3>1. i \in 1..n /\ l \in 1..n /\ l # 0 /\ i <= l
      BY <1>7, <2>2
    <3>2. at[l] - at[i] >= l - i /\ ~Beats(kind, price[l], price[i])
      BY <1>5, <3>1
    <3>3. at[l] \in 1..r /\ at[i] \in 1..r /\ price[l] \in Int /\ price[i] \in Int
      BY <1>5, <1>6, <3>1
    <3>4. ~Beats(kind, x, price[l])
      BY <1>4, <1>2, <3>1
    <3>5. ~Beats(kind, x, price[i])
      BY <3>2, <3>3, <3>4, BeatsIs
    <3>6. (r + 1) - at[i] >= (l + 1) - i
      BY <1>7, <3>1, <3>2, <3>3
    <3>7. pos[i] = at[i] /\ cost[i] = price[i] /\ pos[j] = r + 1 /\ cost[j] = x
      BY <1>4, <1>3, <2>2
    <3> QED
      BY <2>2, <3>5, <3>6, <3>7
  <2>3. CASE i \in 1..l /\ j \in 1..l
    BY <1>5, <1>7, <1>10, <1>3, <2>3
  <2> QED
    BY <1>8, <2>1, <2>2, <2>3
<1>11. ASSUME NEW p \in 1..r + 1, p > (r + 1) - (w + 1)
      PROVE  \E i \in 1..l + 1 : pos[i] >= p /\ ~Beats(kind, xs[p], cost[i])
  <2>1. CASE p = r + 1
    <3>1. ~Beats(kind, x, x)
      BY BeatsIs
    <3>2. pos[l + 1] >= p /\ ~Beats(kind, xs[p], cost[l + 1])
      BY <1>4, <1>3, <2>1, <3>1
    <3> QED
      BY <1>7, <3>2
  <2>2. CASE p # r + 1
    <3>1. p \in 1..r /\ p > r - w
      BY <1>11, <2>2
    <3>2. PICK i \in 1..n : at[i] >= p /\ ~Beats(kind, xs[p], price[i])
      BY <1>5, <3>1
    <3>3. CASE i \in 1..l
      <4>1. pos[i] = at[i] /\ cost[i] = price[i] /\ i \in 1..l + 1
        BY <1>7, <1>3, <3>3
      <4> QED
        BY <3>2, <4>1
    <3>4. CASE i \notin 1..l
      <4>1. i > l
        BY <1>7, <3>4
      <4>2. Beats(kind, x, price[i]) /\ price[i] \in Int /\ xs[p] \in Int
        BY <1>4, <1>6, <1>1, <1>2, <4>1
      <4>3. ~Beats(kind, price[i], x)
        BY <4>2, BeatsIs
      <4>4. ~Beats(kind, xs[p], x)
        BY <3>2, <4>2, <4>3, BeatsIs
      <4>5. pos[l + 1] >= p /\ ~Beats(kind, xs[p], cost[l + 1])
        BY <1>4, <1>3, <4>4
      <4> QED
        BY <1>7, <4>5
    <3> QED
      BY <3>3, <3>4
  <2> QED
    BY <2>1, <2>2
<1> QED
  BY <1>9, <1>10, <1>11 DEF Spans

\* The first entry leaves when it is of the longer window only.
LEMMA SpansLess ==
  ASSUME NEW kind \in Extreme, NEW w \in Nat \ {0}, NEW m \in Nat, NEW n \in Nat \ {0},
         NEW xs, NEW price, NEW at, Spans(price, at, n, kind, xs, m, w + 1), at[n] = m,
         NEW cost, NEW pos
  PROVE  /\ at[1] <= m - w => n > 1
         /\ at[1] <= m - w /\ Shifted(cost, pos, price, at, n) =>
              Spans(cost, pos, n - 1, kind, xs, m, w)
         /\ ~(at[1] <= m - w) => Spans(price, at, n, kind, xs, m, w)
         /\ n > w => at[1] <= m - w
<1>1. /\ \A i \in 1..n : at[i] \in 1..m /\ at[i] > m - (w + 1) /\ price[i] = xs[at[i]]
      /\ \A i, j \in 1..n : i <= j => at[j] - at[i] >= j - i /\ ~Beats(kind, price[j], price[i])
      /\ \A p \in 1..m : p > m - (w + 1) =>
           \E i \in 1..n : at[i] >= p /\ ~Beats(kind, xs[p], price[i])
  BY DEF Spans
<1>2. 1 \in 1..n /\ n \in 1..n /\ at[1] \in 1..m /\ at[1] > m - (w + 1)
  <2>1. 1 \in 1..n /\ n \in 1..n
    OBVIOUS
  <2> QED
    BY <1>1, <2>1
<1>3. at[1] <= m - w => n > 1
  BY <1>2
<1>4. n > w => at[1] <= m - w
  <2> SUFFICES ASSUME n > w PROVE at[1] <= m - w
    OBVIOUS
  <2>1. at[n] - at[1] >= n - 1
    BY <1>1, <1>2
  <2> QED
    BY <1>2, <2>1
<1>5. \A i \in 1..n : at[i] \in 1..m /\ at[i] - at[1] >= i - 1
  BY <1>1, <1>2
<1>6. \A p \in 1..m : p > m - w => p > m - (w + 1)
  OBVIOUS
<1>7. ASSUME ~(at[1] <= m - w) PROVE Spans(price, at, n, kind, xs, m, w)
  <2>1. ASSUME NEW i \in 1..n PROVE at[i] > m - w
    <3>1. at[i] \in 1..m /\ at[i] - at[1] >= i - 1
      BY <1>5
    <3> QED
      BY <1>2, <1>7, <3>1
  <2> QED
    BY <1>1, <1>6, <2>1 DEF Spans
<1>8. ASSUME at[1] <= m - w, Shifted(cost, pos, price, at, n)
      PROVE  Spans(cost, pos, n - 1, kind, xs, m, w)
  <2>1. \A i \in 1..n - 1 : cost[i] = price[i + 1] /\ pos[i] = at[i + 1]
    BY <1>8 DEF Shifted
  <2>2. \A i \in 1..n - 1 : i + 1 \in 1..n
    OBVIOUS
  <2>3. ASSUME NEW i \in 1..n - 1
        PROVE  pos[i] \in 1..m /\ pos[i] > m - w /\ cost[i] = xs[pos[i]]
    <3>1. i + 1 \in 1..n /\ pos[i] = at[i + 1] /\ cost[i] = price[i + 1]
      BY <2>1, <2>2
    <3>2. at[i + 1] \in 1..m /\ at[i + 1] - at[1] >= (i + 1) - 1 /\ price[i + 1] = xs[at[i + 1]]
      BY <1>1, <1>5, <3>1
    <3>3. at[i + 1] > m - w
      BY <1>2, <3>2
    <3> QED
      BY <3>1, <3>2, <3>3
  <2>4. ASSUME NEW i \in 1..n - 1, NEW j \in 1..n - 1, i <= j
        PROVE  pos[j] - pos[i] >= j - i /\ ~Beats(kind, cost[j], cost[i])
    <3>1. i + 1 \in 1..n /\ j + 1 \in 1..n /\ i + 1 <= j + 1 /\ (j + 1) - (i + 1) = j - i
      BY <2>2, <2>4
    <3>2. /\ pos[i] = at[i + 1] /\ cost[i] = price[i + 1]
          /\ pos[j] = at[j + 1] /\ cost[j] = price[j + 1]
      BY <2>1
    <3>3. at[j + 1] - at[i + 1] >= (j + 1) - (i + 1) /\ ~Beats(kind, price[j + 1], price[i + 1])
      BY <1>1, <3>1
    <3> QED
      BY <3>1, <3>2, <3>3
  <2>5. ASSUME NEW p \in 1..m, p > m - w
        PROVE  \E i \in 1..n - 1 : pos[i] >= p /\ ~Beats(kind, xs[p], cost[i])
    <3>1. PICK i \in 1..n : at[i] >= p /\ ~Beats(kind, xs[p], price[i])
      BY <1>1, <1>6, <2>5
    <3>2. at[i] \in 1..m
      BY <1>5
    <3>3. i # 1
      BY <1>2, <1>8, <2>5, <3>1
    <3>4. i - 1 \in 1..n - 1 /\ (i - 1) + 1 = i
      BY <3>3
    <3>5. pos[i - 1] = at[i] /\ cost[i - 1] = price[i]
      BY <2>1, <3>4
    <3> QED
      BY <3>1, <3>4, <3>5
  <2> QED
    BY <2>3, <2>4, <2>5 DEF Spans
<1> QED
  BY <1>3, <1>4, <1>7, <1>8

\* The entries that a new price leaves.
LEMMA UnbeatenIs ==
  ASSUME NEW ind, NEW n \in Nat, DOMAIN ind.vals = 1..n, NEW x
  PROVE  /\ LastUnbeaten(ind, x) \in 0..n
         /\ LastUnbeaten(ind, x) # 0 => ~Beats(ind.kind, x, ind.vals[LastUnbeaten(ind, x)][1])
         /\ \A i \in 1..n : i > LastUnbeaten(ind, x) => Beats(ind.kind, x, ind.vals[i][1])
<1> DEFINE T == {0} \cup {i \in DOMAIN ind.vals : ~Beats(ind.kind, x, ind.vals[i][1])}
<1>1. T \in SUBSET (0..n) /\ T # {}
  OBVIOUS
<1>2. LastUnbeaten(ind, x) = Max(T)
  BY DEF LastUnbeaten
<1>3. Max(T) \in T /\ \A y \in T : y <= Max(T)
  <2> HIDE DEF T
  <2> QED
    BY <1>1, MaxIs
<1>4. PICK t : t = Max(T)
  OBVIOUS
<1>5. t \in 0..n /\ (t # 0 => ~Beats(ind.kind, x, ind.vals[t][1]))
  BY <1>3, <1>4
<1>6. \A i \in 1..n : i > t => Beats(ind.kind, x, ind.vals[i][1])
  <2> SUFFICES ASSUME NEW i \in 1..n, i > t, ~Beats(ind.kind, x, ind.vals[i][1]) PROVE FALSE
    OBVIOUS
  <2>1. i \in T
    OBVIOUS
  <2>2. i <= t
    BY <1>3, <1>4, <2>1
  <2> QED
    BY <1>5, <2>2
<1> QED
  BY <1>2, <1>4, <1>5, <1>6

\* One more price in the deque.
LEMMA DequeNext ==
  ASSUME NEW ind, NEW kind \in Extreme, ind.kind = kind, NEW w \in Nat \ {0},
         NEW r \in Nat, NEW xs, Integral(xs, r + 1),
         NEW d, d = ind.vals, Deque(d, kind, xs, r, w), NEW x, x = xs[r + 1],
         NEW k, k = SubSeq(d, 1, LastUnbeaten(ind, x)),
         NEW all, all = Push(k, <<x, r + 1>>, w),
         NEW mono, mono = IF all[1][2] <= (r + 1) - w THEN Tail(all) ELSE all
  PROVE  Deque(mono, kind, xs, r + 1, w)
<1>1. x \in Int /\ r + 1 \in 1..r + 1 /\ r + 1 \in Nat \ {0}
  BY DEF Integral
<1>2. PICK l : l = LastUnbeaten(ind, x)
  OBVIOUS
<1>3. PICK n : n = Len(d)
  OBVIOUS
<1>4. /\ d \in Seq(Int \X Int) /\ n \in Nat /\ DOMAIN d = 1..n
      /\ Spans(Column(d, 1), Column(d, 2), n, kind, xs, r, w)
  BY <1>3, LenProperties DEF Deque
<1>5. \A i \in 1..n : Column(d, 1)[i] = d[i][1] /\ Column(d, 2)[i] = d[i][2]
  BY <1>4 DEF Column
<1>6. /\ l \in 0..n /\ (l # 0 => ~Beats(kind, x, d[l][1]))
      /\ \A i \in 1..n : i > l => Beats(kind, x, d[i][1])
  BY <1>2, <1>4, UnbeatenIs
<1>7. k \in Seq(Int \X Int) /\ Len(k) = l /\ \A i \in 1..l : k[i] = d[i]
  <2>1. k = SubSeq(d, 1, l) /\ l \in 0..Len(d)
    BY <1>2, <1>3, <1>6
  <2>2. /\ SubSeq(d, 1, l) \in Seq(Int \X Int) /\ Len(SubSeq(d, 1, l)) = l
        /\ \A i \in 1..l : SubSeq(d, 1, l)[i] = d[i]
    BY <1>4, <2>1, FirstOf
  <2> QED
    BY <2>1, <2>2
<1>8. PICK A : A = Append(k, <<x, r + 1>>)
  OBVIOUS
<1>9. /\ A \in Seq(Int \X Int) /\ Len(A) = l + 1 /\ DOMAIN A = 1..l + 1
      /\ A[l + 1] = <<x, r + 1>> /\ \A i \in 1..l : A[i] = k[i]
  <2>1. <<x, r + 1>> \in Int \X Int /\ l \in Nat
    BY <1>1, <1>6
  <2>2. A \in Seq(Int \X Int) /\ Len(A) = l + 1 /\ A[l + 1] = <<x, r + 1>>
        /\ \A i \in 1..l : A[i] = k[i]
    BY <1>7, <1>8, <2>1
  <2> QED
    BY <2>2, LenProperties
<1>10. PICK cost, pos : cost = Column(A, 1) /\ pos = Column(A, 2)
  OBVIOUS
<1>11. \A i \in 1..l + 1 : cost[i] = A[i][1] /\ pos[i] = A[i][2]
  BY <1>9, <1>10 DEF Column
<1>12. /\ l + 1 \in 1..l + 1 /\ 1 \in 1..l + 1 /\ l \in Nat
       /\ 1..l \subseteq 1..n /\ 1..l \subseteq 1..l + 1
       /\ (l # 0 => l \in 1..n)
  BY <1>4, <1>6
<1>13. /\ cost[l + 1] = xs[r + 1] /\ pos[l + 1] = r + 1
       /\ \A i \in 1..l : cost[i] = Column(d, 1)[i] /\ pos[i] = Column(d, 2)[i]
  <2>1. cost[l + 1] = xs[r + 1] /\ pos[l + 1] = r + 1
    BY <1>9, <1>11, <1>12
  <2>2. ASSUME NEW i \in 1..l PROVE cost[i] = Column(d, 1)[i] /\ pos[i] = Column(d, 2)[i]
    <3>1. i \in 1..n /\ i \in 1..l + 1
      BY <1>12
    <3>2. A[i] = d[i]
      BY <1>7, <1>9
    <3> QED
      BY <1>5, <1>11, <3>1, <3>2
  <2> QED
    BY <2>1, <2>2
<1>14. Spans(cost, pos, l + 1, kind, xs, r + 1, w + 1)
  <2>1. PICK price, at : price = Column(d, 1) /\ at = Column(d, 2)
    OBVIOUS
  <2>2. Leaves(kind, xs[r + 1], price, l, n)
    BY <1>5, <1>6, <1>12, <2>1 DEF Leaves
  <2>3. Spans(price, at, n, kind, xs, r, w) /\ w \in Nat /\ n \in Nat /\ l \in 0..n
    BY <1>4, <1>6, <2>1
  <2>4. Joins(cost, pos, price, at, l, xs[r + 1], r + 1)
    BY <1>13, <2>1 DEF Joins
  <2> QED
    BY <2>2, <2>3, <2>4, SpansMore
<1>15. ASSUME NEW c, NEW p
       PROVE
       /\ pos[1] <= (r + 1) - w => l + 1 > 1
       /\ pos[1] <= (r + 1) - w /\ Shifted(c, p, cost, pos, l + 1) =>
            Spans(c, p, (l + 1) - 1, kind, xs, r + 1, w)
       /\ ~(pos[1] <= (r + 1) - w) => Spans(cost, pos, l + 1, kind, xs, r + 1, w)
       /\ l + 1 > w => pos[1] <= (r + 1) - w
  <2>1. PICK m, h : m = r + 1 /\ h = l + 1
    OBVIOUS
  <2>2. m \in Nat /\ h \in Nat \ {0} /\ Spans(cost, pos, h, kind, xs, m, w + 1) /\ pos[h] = m
    BY <1>1, <1>12, <1>13, <1>14, <2>1
  <2>3. /\ pos[1] <= m - w => h > 1
        /\ pos[1] <= m - w /\ Shifted(c, p, cost, pos, h) => Spans(c, p, h - 1, kind, xs, m, w)
        /\ ~(pos[1] <= m - w) => Spans(cost, pos, h, kind, xs, m, w)
        /\ h > w => pos[1] <= m - w
    BY <2>2, SpansLess
  <2> QED
    BY <2>1, <2>3
<1>16. CASE ~(pos[1] <= (r + 1) - w)
  <2>1. ~(l + 1 > w)
    BY <1>15, <1>16
  <2>2. all = A
    BY <1>8, <1>9, <2>1 DEF Push
  <2>3. mono = A
    BY <1>11, <1>12, <1>16, <2>2
  <2>4. Spans(cost, pos, l + 1, kind, xs, r + 1, w)
    BY <1>15, <1>16
  <2> QED
    BY <1>9, <1>10, <2>3, <2>4 DEF Deque
<1>17. CASE pos[1] <= (r + 1) - w
  <2>1. l + 1 > 1 /\ A # <<>>
    <3>1. l + 1 > 1
      BY <1>15, <1>17
    <3>2. Len(A) # 0
      BY <1>9, <3>1
    <3> QED
      BY <3>1, <3>2
  <2>2. PICK t : t = Tail(A)
    OBVIOUS
  <2>3. t \in Seq(Int \X Int) /\ Len(t) = l /\ DOMAIN t = 1..l /\ \A i \in 1..l : t[i] = A[i + 1]
    <3>1. /\ t \in Seq(Int \X Int) /\ Len(t) = (l + 1) - 1
          /\ \A i \in 1..(l + 1) - 1 : t[i] = A[i + 1]
      BY <1>9, <2>1, <2>2, HeadTailProperties
    <3>2. (l + 1) - 1 = l
      BY <1>12
    <3> QED
      BY <3>1, <3>2, LenProperties
  <2>4. PICK c, p : c = Column(t, 1) /\ p = Column(t, 2)
    OBVIOUS
  <2>5. \A i \in 1..l : c[i] = cost[i + 1] /\ p[i] = pos[i + 1]
    <3>1. \A i \in 1..l : i + 1 \in 1..l + 1
      BY <1>12
    <3>2. \A i \in 1..l : c[i] = t[i][1] /\ p[i] = t[i][2]
      BY <2>3, <2>4 DEF Column
    <3> SUFFICES ASSUME NEW i \in 1..l PROVE c[i] = cost[i + 1] /\ p[i] = pos[i + 1]
      OBVIOUS
    <3>3. t[i] = A[i + 1] /\ i + 1 \in 1..l + 1
      BY <2>3, <3>1
    <3> QED
      BY <1>11, <3>2, <3>3
  <2>6. (l + 1) - 1 = l
    BY <1>12
  <2>7. Spans(c, p, l, kind, xs, r + 1, w)
    <3>1. Shifted(c, p, cost, pos, l + 1)
      BY <2>5, <2>6 DEF Shifted
    <3> QED
      BY <1>15, <1>17, <2>6, <3>1
  <2>8. Deque(t, kind, xs, r + 1, w)
    BY <2>3, <2>4, <2>7 DEF Deque
  <2>9. mono = t
    <3>1. CASE l + 1 > w
      <4>1. all = t
        BY <1>8, <1>9, <2>2, <3>1 DEF Push
      <4>2. 1 \in 1..l /\ p[1] = t[1][2]
        BY <1>12, <2>1, <2>3, <2>4 DEF Column
      <4>3. p[1] > (r + 1) - w /\ p[1] \in 1..r + 1
        BY <2>7, <4>2 DEF Spans
      <4>4. ~(t[1][2] <= (r + 1) - w)
        BY <4>2, <4>3
      <4> QED
        BY <4>1, <4>4
    <3>2. CASE ~(l + 1 > w)
      <4>1. all = A
        BY <1>8, <1>9, <3>2 DEF Push
      <4>2. all[1][2] <= (r + 1) - w
        BY <1>11, <1>12, <1>17, <4>1
      <4> QED
        BY <2>2, <4>1, <4>2
    <3> QED
      BY <3>1, <3>2
  <2> QED
    BY <2>8, <2>9
<1> QED
  BY <1>16, <1>17

\* The front of the deque is the extreme of the window.
LEMMA FrontIs ==
  ASSUME NEW kind \in Extreme, NEW w \in Nat \ {0}, NEW m \in Nat \ {0},
         NEW xs, Integral(xs, m),
         NEW d, Deque(d, kind, xs, m, w)
  PROVE  /\ d[1][1] \in Int
         /\ \E p \in 1..m : p > m - w /\ d[1][1] = xs[p]
         /\ \A p \in 1..m : p > m - w => ~Beats(kind, xs[p], d[1][1])
<1>1. PICK n : n = Len(d)
  OBVIOUS
<1>2. /\ d \in Seq(Int \X Int) /\ n \in Nat /\ DOMAIN d = 1..n
  BY <1>1, LenProperties DEF Deque
<1>3. PICK price, at : price = Column(d, 1) /\ at = Column(d, 2)
  OBVIOUS
<1>4. /\ \A i \in 1..n : at[i] \in 1..m /\ at[i] > m - w /\ price[i] = xs[at[i]]
      /\ \A i, j \in 1..n : i <= j => at[j] - at[i] >= j - i /\ ~Beats(kind, price[j], price[i])
      /\ \A p \in 1..m : p > m - w => \E i \in 1..n : at[i] >= p /\ ~Beats(kind, xs[p], price[i])
  BY <1>1, <1>3 DEF Deque, Spans
<1>5. 1 \in 1..n
  <2>1. m \in 1..m /\ m > m - w
    OBVIOUS
  <2>2. PICK i \in 1..n : at[i] >= m
    BY <1>4, <2>1
  <2> QED
    BY <1>2, <2>2
<1>6. d[1][1] = price[1]
  BY <1>2, <1>3, <1>5 DEF Column
<1>7. \A p \in 1..m : xs[p] \in Int
  BY DEF Integral
<1>8. \A i \in 1..n : price[i] \in Int
  BY <1>4, <1>7
<1>9. ASSUME NEW p \in 1..m, p > m - w PROVE ~Beats(kind, xs[p], price[1])
  <2>1. PICK i \in 1..n : at[i] >= p /\ ~Beats(kind, xs[p], price[i])
    BY <1>4, <1>9
  <2>2. 1 <= i
    BY <1>2
  <2>3. ~Beats(kind, price[i], price[1])
    BY <1>4, <1>5, <2>2
  <2> QED
    BY <1>5, <1>7, <1>8, <2>1, <2>3, BeatsIs
<1> QED
  BY <1>4, <1>5, <1>6, <1>9, <1>8

\* The last w of the inputs, as a window of its own.
LEMMA WindowExists ==
  ASSUME NEW X, NEW xs \in Seq(X), NEW w \in Nat \ {0}, NEW m \in 1..Len(xs), w <= m
  PROVE  \E d \in Seq(X) : /\ Holds(d, xs, 1, m, w) /\ Len(d) = w /\ DOMAIN d = 1..w
                             /\ \A i \in 1..w : d[i] = xs[m - w + i]
<1>1. PICK d : d = [i \in 1..w |-> xs[m - w + i]]
  OBVIOUS
<1>2. \A i \in 1..w : m - w + i \in 1..Len(xs)
  OBVIOUS
<1>3. \A i \in 1..w : xs[m - w + i] \in X
  BY <1>2, ElementOfSeq
<1>4. d \in [1..w -> X] /\ DOMAIN d = 1..w
  BY <1>1, <1>3
<1>5. d \in Seq(X) /\ Len(d) = w
  BY <1>4
<1>6. Stored(1, m, w) = w
  BY DEF Stored
<1>7. Holds(d, xs, 1, m, w)
  BY <1>1, <1>5, <1>6 DEF Holds
<1> QED
  BY <1>1, <1>4, <1>5, <1>7

\* The front of the deque is what the window comes to.
LEMMA ExtremeMeaning ==
  ASSUME NEW kind \in Extreme, NEW cs \in Seq(Candle), NEW w \in Nat \ {0}, NEW m \in 1..Len(cs),
         w <= m, NEW d, Deque(d, kind, Inputs(kind, cs), m, w)
  PROVE  d[1][1] \in Int /\ d[1][1] = Meaning(kind, w, SubSeq(cs, 1, m))
<1>1. PICK xs : xs = Inputs(kind, cs)
  OBVIOUS
<1>2. kind \in Vectorizable /\ kind \in Measuring /\ (kind = "max" \/ kind = "min")
  BY DEF Vectorizable, Measuring, Extreme
<1>3. xs \in Seq(Int) /\ Len(xs) = Len(cs) /\ \A i \in 1..Len(cs) : xs[i] \in Int
  BY <1>1, <1>2, InputsIs
<1>4. m \in 1..Len(xs) /\ Integral(xs, m) /\ m \in Nat \ {0}
  BY <1>3 DEF Integral
<1>5. PICK e \in Seq(Int) : /\ Holds(e, xs, 1, m, w) /\ Len(e) = w /\ DOMAIN e = 1..w
                            /\ \A i \in 1..w : e[i] = xs[m - w + i]
  BY <1>3, <1>4, WindowExists
<1>6. PICK x : x = d[1][1]
  OBVIOUS
<1>7. /\ x \in Int
      /\ \E p \in 1..m : p > m - w /\ x = xs[p]
      /\ \A p \in 1..m : p > m - w => ~Beats(kind, xs[p], x)
  <2>1. Deque(d, kind, xs, m, w)
    BY <1>1
  <2>2. /\ d[1][1] \in Int
        /\ \E p \in 1..m : p > m - w /\ d[1][1] = xs[p]
        /\ \A p \in 1..m : p > m - w => ~Beats(kind, xs[p], d[1][1])
    BY <1>4, <2>1, FrontIs
  <2> QED
    BY <1>6, <2>2
<1>8. \E i \in 1..w : x = e[i]
  <2>1. PICK p \in 1..m : p > m - w /\ x = xs[p]
    BY <1>7
  <2>2. p - (m - w) \in 1..w /\ m - w + (p - (m - w)) = p
    BY <1>4, <2>1
  <2> QED
    BY <1>5, <2>1, <2>2
<1>9. \A i \in 1..w : ~Beats(kind, e[i], x) /\ e[i] \in Int
  <2> SUFFICES ASSUME NEW i \in 1..w PROVE ~Beats(kind, e[i], x) /\ e[i] \in Int
    OBVIOUS
  <2>1. m - w + i \in 1..m /\ m - w + i > m - w
    BY <1>4
  <2>2. e[i] = xs[m - w + i]
    BY <1>5
  <2> QED
    BY <1>3, <1>5, <1>7, <2>1, <2>2, ElementOfSeq
<1>10. /\ Largest(e) \in Int /\ Smallest(e) \in Int
       /\ \E i \in 1..w : Largest(e) = e[i]
       /\ \E i \in 1..w : Smallest(e) = e[i]
       /\ \A i \in 1..w : e[i] <= Largest(e) /\ e[i] >= Smallest(e)
  BY <1>5, <1>9, LargestIs
<1>11. CASE kind = "max"
  <2>1. x = Largest(e)
    BY <1>7, <1>8, <1>9, <1>10, <1>11 DEF Beats
  <2>2. Meaning(kind, w, SubSeq(cs, 1, m)) = Largest(e)
    BY <1>1, <1>2, <1>5, <1>11, WindowMeaning
  <2> QED
    BY <1>6, <1>7, <2>1, <2>2
<1>12. CASE kind = "min"
  <2>1. x = Smallest(e)
    BY <1>7, <1>8, <1>9, <1>10, <1>12 DEF Beats
  <2>2. Meaning(kind, w, SubSeq(cs, 1, m)) = Smallest(e)
    BY <1>1, <1>2, <1>5, <1>12, WindowMeaning
  <2> QED
    BY <1>6, <1>7, <2>1, <2>2
<1> QED
  BY <1>2, <1>11, <1>12

\* One more candle for the monotonic deque.
LEMMA ExtremeNext ==
  ASSUME NEW ind, NEW spec, NEW cs \in Seq(Candle), NEW m \in 1..Len(cs), NEW position,
         ind.kind \in Extreme, ind.window \in Nat \ {0}, After(ind, spec, cs, m - 1)
  PROVE  After(Update(ind, cs[m], position), spec, cs, m)
<1>1. PICK kind, w, xs : kind = ind.kind /\ w = ind.window /\ xs = Inputs(kind, cs)
  OBVIOUS
<1>2. /\ kind \in Measuring /\ kind \in Vectorizable /\ kind \in Valued \ {"pivot"}
      /\ kind \in Extreme /\ kind \notin Rolling /\ kind \notin Spread
      /\ kind # "adx" /\ kind # "taker" /\ kind # "pivot"
      /\ kind \notin {"atr", "supertrend"} /\ Ready(kind, w) = 1
  BY <1>1 DEF Measuring, Valued, Vectorizable, Rolling, Spread, Extreme, Ready
<1>3. /\ xs \in Seq(Int) /\ Len(xs) = Len(cs)
      /\ \A i \in 1..Len(cs) : xs[i] \in Int
      /\ cs[m] \in Candle
      /\ xs[m] = Input(kind, cs[m], None)
  <2>1. /\ xs \in Seq(Int) /\ Len(xs) = Len(cs)
        /\ \A i \in 1..Len(cs) : xs[i] \in Int
        /\ cs[m] \in Candle
        /\ xs[m] = Input(kind, cs[m], IF m = 1 THEN None ELSE cs[m - 1].close)
    BY <1>1, <1>2, InputsIs
  <2>2. PICK p : p = IF m = 1 THEN None ELSE cs[m - 1].close
    OBVIOUS
  <2>3. p \in Int \cup {None}
    <3>1. m # 1 => m - 1 \in 1..Len(cs)
      OBVIOUS
    <3>2. \A i \in 1..Len(cs) : cs[i].close \in Int
      BY ElementOfSeq, CandleIs
    <3> QED
      BY <2>2, <3>1, <3>2
  <2>4. Input(kind, cs[m], p) = Input(kind, cs[m], None)
    BY <1>2, <2>1, <2>3, InputIs
  <2> QED
    BY <2>1, <2>2, <2>4
<1>4. /\ DOMAIN ind = Fields /\ ind.kind = spec.kind /\ ind.window = spec.window
      /\ Gives(ind, cs, m - 1)
      /\ ind.seen = m - 1 /\ Deque(ind.vals, kind, xs, m - 1, w)
  BY <1>1, <1>2 DEF After, Work
<1>5. PICK r \in Nat : r = m - 1
  OBVIOUS
<1>6. r + 1 = m /\ r + 1 \in 1..Len(cs)
  BY <1>5
<1>7. PICK x : x = xs[m]
  OBVIOUS
<1>8. PICK k : k = SubSeq(ind.vals, 1, LastUnbeaten(ind, x))
  OBVIOUS
<1>9. PICK all : all = Push(k, <<x, m>>, w)
  OBVIOUS
<1>10. PICK mono : mono = IF all[1][2] <= m - w THEN Tail(all) ELSE all
  OBVIOUS
<1>11. Deque(mono, kind, xs, m, w)
  <2>1. PICK d : d = ind.vals
    OBVIOUS
  <2>2. Deque(d, kind, xs, r, w) /\ Integral(xs, r + 1) /\ kind \in Extreme /\ w \in Nat \ {0}
    BY <1>1, <1>2, <1>3, <1>4, <1>5, <1>6, <2>1 DEF Integral
  <2>3. x = xs[r + 1] /\ all = Push(k, <<x, r + 1>>, w)
    BY <1>6, <1>7, <1>9
  <2>4. k = SubSeq(d, 1, LastUnbeaten(ind, x)) /\ kind = ind.kind
    BY <1>1, <1>8, <2>1
  <2>5. mono = IF all[1][2] <= (r + 1) - w THEN Tail(all) ELSE all
    BY <1>6, <1>10
  <2>6. Deque(mono, kind, xs, r + 1, w)
    BY <2>1, <2>2, <2>3, <2>4, <2>5, DequeNext
  <2> QED
    BY <1>6, <2>6
<1>12. PICK next : next = [ind EXCEPT !.seen = m, !.vals = mono]
  OBVIOUS
<1>13. /\ DOMAIN next = Fields /\ next.vals = mono /\ next.seen = m
       /\ next.kind = ind.kind /\ next.window = ind.window /\ next.out = ind.out
  BY <1>4, <1>12 DEF Fields
<1>14. PICK v : v = IF w <= m THEN mono[1][1] ELSE None
  OBVIOUS
<1>15. PICK e : e = Update(ind, cs[m], position)
  OBVIOUS
<1>16. GivesOnce(next, e, v, Ready(next.kind, next.window), m)
  <2>1. e = UpdateExtreme(ind, cs[m])
    BY <1>1, <1>2, <1>15, UpdateIs
  <2>2. UpdateExtreme(ind, cs[m]) = Emit(next, v)
    <3>1. Input(ind.kind, cs[m], None) = x /\ ind.seen + 1 = m
      BY <1>1, <1>3, <1>4, <1>7
    <3>2. Push(SubSeq(ind.vals, 1, LastUnbeaten(ind, x)), <<x, m>>, ind.window) = all
      BY <1>1, <1>8, <1>9
    <3> HIDE DEF Emit
    <3> QED
      BY <1>1, <1>10, <1>12, <1>14, <3>1, <3>2 DEF UpdateExtreme
  <2>3. Ready(next.kind, next.window) = 1 /\ 1 <= m
    BY <1>1, <1>2, <1>13
  <2> QED
    BY <2>1, <2>2, <2>3 DEF GivesOnce
<1>17. v \in Value /\ v = Meaning(kind, w, SubSeq(cs, 1, m))
  <2>1. CASE w <= m
    BY <1>1, <1>2, <1>11, <1>14, <2>1, ExtremeMeaning DEF Value
  <2>2. CASE ~(w <= m)
    <3>1. m < w /\ w \in Nat \ {0}
      BY <1>1, <2>2
    <3>2. Meaning(kind, w, SubSeq(cs, 1, m)) = None
      BY <1>2, <3>1, WindowMeaning
    <3> QED
      BY <1>14, <2>2, <3>2 DEF Value
  <2> QED
    BY <2>1, <2>2
<1>18. Gives(e, cs, m) /\ SameWork(next, e)
  <2>1. Gives(next, cs, m - 1)
    BY <1>1, <1>2, <1>4, <1>13, GivesSame
  <2>2. next.kind \in Valued \ {"pivot"} /\ next.window \in Nat \ {0} /\ DOMAIN next = Fields
    BY <1>1, <1>2, <1>13
  <2>3. Ready(next.kind, next.window) <= m =>
          v \in Value /\ v = Meaning(next.kind, next.window, SubSeq(cs, 1, m))
    BY <1>1, <1>13, <1>17
  <2> QED
    BY <1>16, <2>1, <2>2, <2>3, Given
<1>19. e.vals = mono /\ e.seen = m /\ e.kind = kind /\ e.window = w /\ DOMAIN e = Fields
  BY <1>1, <1>13, <1>18 DEF SameWork
<1>20. Work(e, cs, m)
  BY <1>1, <1>2, <1>11, <1>19 DEF Work
<1> QED
  BY <1>1, <1>4, <1>15, <1>18, <1>19, <1>20 DEF After

-----------------------------------------------------------------------------
(* The sums of the taker imbalance, a window of candles with fields        *)
(* missing.                                                                *)

\* A field of a sequence of records.
Field(X, f, Y) == \A y \in X : y[f] \in Y
\* It has the field of each record.
LEMMA ColumnIs ==
  ASSUME NEW X, NEW d \in Seq(X), NEW f, NEW Y, Field(X, f, Y)
  PROVE  /\ Column(d, f) \in Seq(Y) /\ Len(Column(d, f)) = Len(d)
         /\ DOMAIN Column(d, f) = 1..Len(d)
         /\ \A i \in 1..Len(d) : Column(d, f)[i] = d[i][f] /\ d[i] \in X
<1>1. Len(d) \in Nat /\ DOMAIN d = 1..Len(d) /\ \A i \in 1..Len(d) : d[i] \in X
  BY ElementOfSeq, LenProperties
<1>2. PICK c : c = Column(d, f)
  OBVIOUS
<1>3. c \in [1..Len(d) -> Y] /\ DOMAIN c = 1..Len(d) /\ \A i \in 1..Len(d) : c[i] = d[i][f]
  BY <1>1, <1>2 DEF Column, Field
<1>4. c \in Seq(Y) /\ Len(c) = Len(d)
  BY <1>1, <1>3
<1> QED
  BY <1>1, <1>2, <1>3, <1>4

\* It slides with the sequence.
LEMMA ColumnPush ==
  ASSUME NEW X, NEW d \in Seq(X), NEW x \in X, NEW cap \in Nat \ {0}, NEW f,
         Field(X, f, Int)
  PROVE  Column(Push(d, x, cap), f) = Push(Column(d, f), x[f], cap)
<1>1. PICK c : c = Column(d, f)
  OBVIOUS
<1>2. PICK n : n = Len(d)
  OBVIOUS
<1>3. /\ c \in Seq(Int) /\ Len(c) = n /\ n \in Nat
      /\ \A i \in 1..n : c[i] = d[i][f] /\ d[i] \in X
  BY <1>1, <1>2, ColumnIs
<1>4. PICK z \in Int : z = x[f]
  BY DEF Field
<1>5. PICK a, b : a = Append(d, x) /\ b = Append(c, z)
  OBVIOUS
<1>6. /\ a \in Seq(X) /\ Len(a) = n + 1 /\ a[n + 1] = x /\ \A i \in 1..n : a[i] = d[i]
      /\ b \in Seq(Int) /\ Len(b) = n + 1 /\ b[n + 1] = z /\ \A i \in 1..n : b[i] = c[i]
  <2>1. a \in Seq(X) /\ Len(a) = n + 1 /\ a[n + 1] = x /\ \A i \in 1..n : a[i] = d[i]
    BY <1>2, <1>5, AppendProperties
  <2>2. b \in Seq(Int) /\ Len(b) = n + 1 /\ b[n + 1] = z /\ \A i \in 1..n : b[i] = c[i]
    BY <1>3, <1>5, AppendProperties
  <2> QED
    BY <2>1, <2>2
<1>7. \A i \in 1..n + 1 : b[i] = a[i][f]
  <2> SUFFICES ASSUME NEW i \in 1..n + 1 PROVE b[i] = a[i][f]
    OBVIOUS
  <2>1. i = n + 1 \/ i \in 1..n
    BY <1>3
  <2> QED
    BY <1>3, <1>4, <1>6, <2>1
<1>8. CASE ~(n + 1 > cap)
  <2>1. Push(d, x, cap) = a /\ Push(c, z, cap) = b
    BY <1>5, <1>6, <1>8 DEF Push
  <2>2. PICK e : e = Column(a, f)
    OBVIOUS
  <2>3. e \in Seq(Int) /\ Len(e) = n + 1 /\ \A i \in 1..n + 1 : e[i] = a[i][f]
    <3>1. a \in Seq(X) /\ Len(a) = n + 1
      BY <1>6
    <3>2. e \in Seq(Int) /\ Len(e) = Len(a) /\ \A i \in 1..Len(a) : e[i] = a[i][f]
      BY <2>2, <3>1, ColumnIs
    <3> QED
      BY <3>1, <3>2
  <2>4. e = b
    <3>1. e \in Seq(Int) /\ b \in Seq(Int) /\ Len(e) = Len(b) /\ \A i \in 1..Len(e) : e[i] = b[i]
      BY <1>6, <1>7, <2>3
    <3> QED
      BY <3>1, SeqEqual
  <2> QED
    BY <1>1, <1>4, <2>1, <2>2, <2>4
<1>9. CASE n + 1 > cap
  <2>1. Push(d, x, cap) = Tail(a) /\ Push(c, z, cap) = Tail(b)
    BY <1>5, <1>6, <1>9 DEF Push
  <2>2. PICK t, u : t = Tail(a) /\ u = Tail(b)
    OBVIOUS
  <2>3. (n + 1) - 1 = n /\ a # <<>> /\ b # <<>>
    BY <1>3, <1>6
  <2>4. t \in Seq(X) /\ Len(t) = n /\ \A i \in 1..n : t[i] = a[i + 1]
    BY <1>6, <2>2, <2>3, HeadTailProperties
  <2>5. u \in Seq(Int) /\ Len(u) = n /\ \A i \in 1..n : u[i] = b[i + 1]
    BY <1>6, <2>2, <2>3, HeadTailProperties
  <2>6. PICK e : e = Column(t, f)
    OBVIOUS
  <2>7. e \in Seq(Int) /\ Len(e) = n /\ \A i \in 1..n : e[i] = t[i][f]
    BY <2>4, <2>6, ColumnIs
  <2>8. \A i \in 1..n : e[i] = u[i]
    <3> SUFFICES ASSUME NEW i \in 1..n PROVE e[i] = u[i]
      OBVIOUS
    <3>1. i + 1 \in 1..n + 1
      BY <1>3
    <3> QED
      BY <1>7, <2>4, <2>5, <2>7, <3>1
  <2>9. e = u
    BY <2>5, <2>7, <2>8, SeqEqual
  <2> QED
    BY <1>1, <1>4, <2>1, <2>2, <2>6, <2>9
<1> QED
  BY <1>8, <1>9

\* A sum over a field slides with the sequence.
LEMMA ColumnSum ==
  ASSUME NEW X, NEW d \in Seq(X), NEW x \in X, NEW cap \in Nat \ {0}, Len(d) <= cap, NEW f,
         Field(X, f, Int)
  PROVE  /\ Len(d) = cap =>
              SumOf(Column(Push(d, x, cap), f)) = SumOf(Column(d, f)) - Head(d)[f] + x[f]
         /\ Len(d) # cap => SumOf(Column(Push(d, x, cap), f)) = SumOf(Column(d, f)) - 0 + x[f]
<1>1. PICK c : c = Column(d, f)
  OBVIOUS
<1>2. /\ c \in Seq(Int) /\ Len(c) = Len(d) /\ Len(d) \in Nat
      /\ \A i \in 1..Len(d) : c[i] = d[i][f]
  BY <1>1, ColumnIs
<1>3. PICK z \in Int : z = x[f]
  BY DEF Field
<1>4. Column(Push(d, x, cap), f) = Push(c, z, cap)
  BY <1>1, <1>3, ColumnPush
<1>5. Len(c) <= cap
  BY <1>2
<1>6. /\ Len(c) = cap => SumOf(Push(c, z, cap)) = SumOf(c) - Head(c) + z
      /\ Len(c) # cap => SumOf(Push(c, z, cap)) = SumOf(c) - 0 + z
  <2>1. c \in Seq(Int)
    BY <1>2
  <2> QED
    BY <1>5, <2>1, SumPush
<1>7. Len(d) = cap => Head(c) = Head(d)[f]
  <2> SUFFICES ASSUME Len(d) = cap PROVE Head(c) = Head(d)[f]
    OBVIOUS
  <2>1. 1 \in 1..Len(d)
    OBVIOUS
  <2>2. Head(c) = c[1] /\ Head(d) = d[1]
    OBVIOUS
  <2> QED
    BY <1>2, <2>1, <2>2
<1> QED
  BY <1>1, <1>2, <1>3, <1>4, <1>6, <1>7

\* What is kept of a candle.
LEMMA TakenIs ==
  /\ \A y \in Taken : y.buy \in Int /\ y.volume \in Int /\ y.missing \in Nat /\ y.missing \in Int
  /\ \A y \in Taken : y.buy = y["buy"] /\ y.volume = y["volume"] /\ y.missing = y["missing"]
  /\ \A c \in Candle : TakenOf(c) \in Taken
<1>1. \A y \in Taken : y.buy \in Int /\ y.volume \in Int /\ y.missing \in Nat /\ y.missing \in Int
  BY DEF Taken
<1>2. \A y \in Taken : y.buy = y["buy"] /\ y.volume = y["volume"] /\ y.missing = y["missing"]
  OBVIOUS
<1>3. ASSUME NEW c \in Candle PROVE TakenOf(c) \in Taken
  <2>1. c.volume \in Int /\ c.taker \in Int \cup {None}
    BY CandleIs
  <2> QED
    BY <2>1 DEF TakenOf, Taken
<1> QED
  BY <1>1, <1>2, <1>3

\* The imbalance of a full window, from its sums.
LEMMA TakerMeaning ==
  ASSUME NEW cs \in Seq(Candle), NEW w \in Nat \ {0}, NEW m \in 1..Len(cs),
         NEW d \in Seq(Taken), Holds(d, TakenAll(cs), 1, m, w)
  PROVE  /\ m < w => Meaning("taker", w, SubSeq(cs, 1, m)) = None
         /\ w <= m => Meaning("taker", w, SubSeq(cs, 1, m)) =
              IF SumOf(Column(d, "missing")) > 0 \/ SumOf(Column(d, "volume")) <= 0 THEN None
              ELSE <<2 * SumOf(Column(d, "buy")) - SumOf(Column(d, "volume")),
                     SumOf(Column(d, "volume"))>>
<1>1. PICK ds : ds = SubSeq(cs, 1, m)
  OBVIOUS
<1>2. m \in 0..Len(cs) /\ m \in Nat /\ Len(cs) \in Nat /\ DOMAIN cs = 1..Len(cs)
      /\ \A i \in 1..Len(cs) : cs[i] \in Candle
  BY ElementOfSeq, LenProperties
<1>3. Len(ds) = m
  BY <1>1, <1>2, FirstOf
<1>4. Meaning("taker", w, ds) = IF m < w THEN None ELSE TakerOf(LastOf(ds, w))
  <2>1. m < w => Meaning("taker", w, ds) = None
    BY <1>3 DEF Meaning
  <2>2. ~(m < w) => Meaning("taker", w, ds) = TakerOf(LastOf(ds, w))
    BY <1>3 DEF Meaning, Rolling, Spread
  <2> QED
    BY <2>1, <2>2
<1>5. ASSUME w <= m
      PROVE  TakerOf(LastOf(ds, w)) =
              IF SumOf(Column(d, "missing")) > 0 \/ SumOf(Column(d, "volume")) <= 0 THEN None
              ELSE <<2 * SumOf(Column(d, "buy")) - SumOf(Column(d, "volume")),
                     SumOf(Column(d, "volume"))>>
  <2>1. PICK es \in Seq(Candle) : /\ Holds(es, cs, 1, m, w) /\ Len(es) = w /\ DOMAIN es = 1..w
                                  /\ \A i \in 1..w : es[i] = cs[m - w + i]
    BY <1>5, WindowExists
  <2>2. LastOf(ds, w) = es
    BY <1>1, <1>5, <2>1, LastIs
  <2>3. Stored(1, m, w) = w
    BY <1>2, <1>5 DEF Stored
  <2>4. Len(d) = w /\ \A i \in 1..w : d[i] = TakenAll(cs)[m - w + i]
    BY <2>3 DEF Holds
  <2>5. \A i \in 1..w : m - w + i \in 1..Len(cs)
    BY <1>2, <1>5
  <2>6. \A i \in 1..w : d[i] = TakenOf(es[i]) /\ es[i] \in Candle
    BY <1>2, <2>1, <2>4, <2>5 DEF TakenAll
  <2>7. DOMAIN d = 1..w
    BY <2>4, LenProperties
  <2>8. [i \in DOMAIN es |-> es[i].volume] = Column(d, "volume")
    BY <2>1, <2>6, <2>7 DEF Column, TakenOf
  <2>9. PICK miss : miss = Column(d, "missing")
    OBVIOUS
  <2>10. miss \in Seq(Nat) /\ Len(miss) = w /\ \A i \in 1..w : miss[i] = d[i]["missing"]
    <3>1. Field(Taken, "missing", Nat)
      BY TakenIs DEF Field
    <3> QED
      BY <2>4, <2>9, <3>1, ColumnIs
  <2>11. SumOf(miss) > 0 <=> \E i \in DOMAIN es : es[i].taker = None
    <3>1. SumOf(miss) > 0 <=> \E i \in 1..w : miss[i] > 0
      BY <2>10, SumSigned
    <3>2. \A i \in 1..w : miss[i] > 0 <=> es[i].taker = None
      <4> SUFFICES ASSUME NEW i \in 1..w PROVE miss[i] > 0 <=> es[i].taker = None
        OBVIOUS
      <4>1. miss[i] = TakenOf(es[i])["missing"]
        BY <2>6, <2>10
      <4>2. miss[i] = IF es[i].taker = None THEN 1 ELSE 0
        BY <4>1 DEF TakenOf
      <4> QED
        BY <4>2
    <3> QED
      BY <2>1, <3>1, <3>2
  <2>12. (\A i \in DOMAIN es : es[i].taker # None) =>
            [i \in DOMAIN es |-> es[i].taker] = Column(d, "buy")
    <3> SUFFICES ASSUME \A i \in DOMAIN es : es[i].taker # None
                 PROVE  [i \in DOMAIN es |-> es[i].taker] = Column(d, "buy")
      OBVIOUS
    <3>1. ASSUME NEW i \in 1..w PROVE es[i].taker = d[i]["buy"]
      <4>1. d[i] = TakenOf(es[i]) /\ es[i].taker # None
        BY <2>1, <2>6
      <4> QED
        BY <4>1 DEF TakenOf
    <3> QED
      BY <2>1, <2>7, <3>1 DEF Column
  <2>13. PICK vol : vol = SumOf(Column(d, "volume"))
    OBVIOUS
  <2>14. TakerOf(es) = IF vol <= 0 \/ \E i \in DOMAIN es : es[i].taker = None THEN None
                       ELSE <<2 * SumOf([i \in DOMAIN es |-> es[i].taker]) - vol, vol>>
    BY <2>8, <2>13 DEF TakerOf
  <2>15. CASE \E i \in DOMAIN es : es[i].taker = None
    BY <2>2, <2>9, <2>11, <2>14, <2>15
  <2>16. CASE ~\E i \in DOMAIN es : es[i].taker = None
    <3>1. [i \in DOMAIN es |-> es[i].taker] = Column(d, "buy")
      BY <2>12, <2>16
    <3>2. TakerOf(es) = IF vol <= 0 THEN None ELSE <<2 * SumOf(Column(d, "buy")) - vol, vol>>
      BY <2>14, <2>16, <3>1
    <3>3. ~(SumOf(miss) > 0)
      BY <2>11, <2>16
    <3> QED
      BY <2>2, <2>9, <2>13, <3>2, <3>3
  <2> QED
    BY <2>15, <2>16
<1> QED
  BY <1>1, <1>2, <1>4, <1>5

\* One more candle for the sums of the imbalance.
LEMMA TakerNext ==
  ASSUME NEW ind, NEW spec, NEW cs \in Seq(Candle), NEW m \in 1..Len(cs), NEW position,
         ind.kind = "taker", ind.window \in Nat \ {0}, After(ind, spec, cs, m - 1)
  PROVE  After(Update(ind, cs[m], position), spec, cs, m)
<1>1. PICK w, d, xs : w = ind.window /\ d = ind.vals /\ xs = TakenAll(cs)
  OBVIOUS
<1>2. /\ DOMAIN ind = Fields /\ ind.kind = spec.kind /\ ind.window = spec.window
      /\ Gives(ind, cs, m - 1)
      /\ d \in Seq(Taken) /\ Holds(d, xs, 1, m - 1, w)
      /\ ind.sum = SumOf(Column(d, "volume"))
      /\ ind.buys = SumOf(Column(d, "buy"))
      /\ ind.missing = SumOf(Column(d, "missing"))
  BY <1>1 DEF After, Work, TakerWork
<1>3. cs[m] \in Candle /\ xs[m] = TakenOf(cs[m]) /\ m \in Nat \ {0} /\ w \in Nat \ {0}
  <2>1. DOMAIN cs = 1..Len(cs) /\ cs[m] \in Candle
    BY ElementOfSeq, LenProperties
  <2> QED
    BY <1>1, <2>1 DEF TakenAll
<1>4. PICK c : c = cs[m]
  OBVIOUS
<1>5. PICK came \in Taken : came = TakenOf(c) /\ came = xs[m]
  BY <1>3, <1>4, TakenIs
<1>6. PICK p : p = Push(d, came, w)
  OBVIOUS
<1>7. p \in Seq(Taken) /\ Holds(p, xs, 1, m, w) /\ Len(d) <= w
  <2>1. 1 \in Nat \ {0} /\ 1 <= m
    BY <1>3
  <2> QED
    BY <1>2, <1>3, <1>5, <1>6, <2>1, PushHolds
<1>8. Len(p) = w <=> w <= m
  BY <1>3, <1>7 DEF Holds, Stored
<1>9. PICK gone : gone = IF Len(d) = w THEN Head(d) ELSE [buy |-> 0, volume |-> 0, missing |-> 0]
  OBVIOUS
<1>10. /\ SumOf(Column(p, "volume")) = ind.sum - gone.volume + came.volume
       /\ SumOf(Column(p, "buy")) = ind.buys - gone.buy + came.buy
       /\ SumOf(Column(p, "missing")) = ind.missing - gone.missing + came.missing
  <2>1. Field(Taken, "volume", Int) /\ Field(Taken, "buy", Int) /\ Field(Taken, "missing", Int)
    BY TakenIs DEF Field
  <2>2. ASSUME NEW f, Field(Taken, f, Int)
        PROVE  /\ Len(d) = w => SumOf(Column(p, f)) = SumOf(Column(d, f)) - Head(d)[f] + came[f]
               /\ Len(d) # w => SumOf(Column(p, f)) = SumOf(Column(d, f)) - 0 + came[f]
    BY <1>2, <1>3, <1>6, <1>7, <2>2, ColumnSum
  <2>3. CASE Len(d) = w
    <3>1. gone = Head(d)
      BY <1>9, <2>3
    <3> QED
      BY <1>2, <2>1, <2>2, <2>3, <3>1
  <2>4. CASE Len(d) # w
    <3>1. gone.volume = 0 /\ gone.buy = 0 /\ gone.missing = 0
      BY <1>9, <2>4
    <3> QED
      BY <1>2, <2>1, <2>2, <2>4, <3>1
  <2> QED
    BY <2>3, <2>4
<1>11. PICK s, b, q : /\ s = SumOf(Column(p, "volume")) /\ b = SumOf(Column(p, "buy"))
                      /\ q = SumOf(Column(p, "missing"))
  OBVIOUS
<1>12. s \in Int /\ b \in Int /\ q \in Int
  <2>1. Field(Taken, "volume", Int) /\ Field(Taken, "buy", Int) /\ Field(Taken, "missing", Int)
    BY TakenIs DEF Field
  <2>2. ASSUME NEW f, Field(Taken, f, Int) PROVE Column(p, f) \in Seq(Int)
    BY <1>7, <2>2, ColumnIs
  <2>3. ASSUME NEW f, Field(Taken, f, Int) PROVE SumOf(Column(p, f)) \in Int
    BY <2>2, <2>3, SumInt
  <2> QED
    BY <1>11, <2>1, <2>3
<1>13. PICK next : next = [ind EXCEPT !.vals = p, !.sum = s, !.buys = b, !.missing = q]
  OBVIOUS
<1>14. /\ DOMAIN next = Fields /\ next.vals = p /\ next.sum = s /\ next.buys = b /\ next.missing = q
       /\ next.kind = ind.kind /\ next.window = ind.window /\ next.out = ind.out
  BY <1>2, <1>13 DEF Fields
<1>15. PICK v : v = IF q > 0 \/ s <= 0 THEN None ELSE <<2 * b - s, s>>
  OBVIOUS
<1>16. PICK e : e = Update(ind, cs[m], position)
  OBVIOUS
<1>17. GivesOnce(next, e, v, Ready(next.kind, next.window), m)
  <2>1. e = UpdateTaker(ind, c)
    BY <1>4, <1>16, UpdateIs
  <2>2. UpdateTaker(ind, c) = IF ~Warm(next) THEN next ELSE Emit(next, v)
    <3>1. came = [buy |-> IF c.taker = None THEN 0 ELSE c.taker, volume |-> c.volume,
                  missing |-> IF c.taker = None THEN 1 ELSE 0]
      BY <1>5 DEF TakenOf
    <3>2. next = [ind EXCEPT !.vals = Push(@, came, ind.window),
                             !.sum = @ - gone.volume + came.volume,
                             !.buys = @ - gone.buy + came.buy,
                             !.missing = @ - gone.missing + came.missing]
      BY <1>1, <1>6, <1>10, <1>11, <1>13
    <3>3. v = IF next.missing > 0 \/ next.sum <= 0 THEN None
              ELSE <<2 * next.buys - next.sum, next.sum>>
      BY <1>14, <1>15
    <3>4. UpdateTaker(ind, c) =
            IF ~Warm(next) THEN next
            ELSE Emit(next, IF next.missing > 0 \/ next.sum <= 0 THEN None
                            ELSE <<2 * next.buys - next.sum, next.sum>>)
      BY <1>1, <1>9, <3>1, <3>2 DEF UpdateTaker
    <3> QED
      BY <3>3, <3>4
  <2>3. Warm(next) <=> w <= m
    BY <1>1, <1>8, <1>14 DEF Warm
  <2>4. Ready(next.kind, next.window) = w
    BY <1>1, <1>14 DEF Ready, Extreme
  <2> QED
    BY <2>1, <2>2, <2>3, <2>4 DEF GivesOnce
<1>18. Ready(next.kind, next.window) <= m =>
         v \in Value /\ v = Meaning(next.kind, next.window, SubSeq(cs, 1, m))
  <2> SUFFICES ASSUME Ready(next.kind, next.window) <= m
               PROVE v \in Value /\ v = Meaning(next.kind, next.window, SubSeq(cs, 1, m))
    OBVIOUS
  <2>1. w <= m
    BY <1>1, <1>14 DEF Ready, Extreme
  <2>2. Meaning("taker", w, SubSeq(cs, 1, m)) = v
    <3>1. Meaning("taker", w, SubSeq(cs, 1, m)) =
              IF SumOf(Column(p, "missing")) > 0 \/ SumOf(Column(p, "volume")) <= 0 THEN None
              ELSE <<2 * SumOf(Column(p, "buy")) - SumOf(Column(p, "volume")),
                     SumOf(Column(p, "volume"))>>
      <4>1. p \in Seq(Taken) /\ Holds(p, TakenAll(cs), 1, m, w)
        BY <1>1, <1>7
      <4> QED
        BY <1>3, <2>1, <4>1, TakerMeaning
    <3> QED
      BY <1>11, <1>15, <3>1
  <2>3. v \in Value
    BY <1>12, <1>15 DEF Value, Pair
  <2> QED
    BY <1>1, <1>14, <2>2, <2>3
<1>19. Gives(e, cs, m) /\ SameWork(next, e)
  <2>1. Gives(next, cs, m - 1)
    BY <1>2, <1>14, GivesSame
  <2>2. next.kind \in Valued \ {"pivot"} /\ next.window \in Nat \ {0} /\ DOMAIN next = Fields
    BY <1>1, <1>14 DEF Valued
  <2> QED
    BY <1>17, <1>18, <2>1, <2>2, Given
<1>20. /\ e.vals = p /\ e.sum = s /\ e.buys = b /\ e.missing = q
       /\ e.kind = "taker" /\ e.window = w /\ DOMAIN e = Fields
  BY <1>1, <1>14, <1>19 DEF SameWork
<1>21. Work(e, cs, m)
  BY <1>1, <1>7, <1>11, <1>20 DEF Work, TakerWork, Rolling, Spread, Extreme
<1> QED
  BY <1>1, <1>2, <1>16, <1>19, <1>20, <1>21 DEF After

-----------------------------------------------------------------------------
(* The pivots of a trendline, confirmed a window of candles later.         *)

\* A pivot of a sequence, and those of its first m inputs.
Turn(xs, p, k) ==
  /\ \A j \in 1..k : xs[p] > xs[p - j]
  /\ \A j \in 1..k : xs[p] >= xs[p + j]
Found(xs, m, k) == {p \in k + 1..m - k : Turn(xs, p, k)}

\* These are the pivots the meaning of a trendline looks for.
LEMMA FoundIs ==
  ASSUME NEW xs \in Seq(Int), NEW m \in 0..Len(xs), NEW k \in Nat \ {0}
  PROVE  /\ Pivots(SubSeq(xs, 1, m), k) = Found(xs, m, k)
         /\ Found(xs, m, k) \in SUBSET (1..m) /\ IsFiniteSet(Found(xs, m, k))
         /\ Cardinality(Found(xs, m, k)) \in Nat
<1>1. PICK ys : ys = SubSeq(xs, 1, m)
  OBVIOUS
<1>2. m \in Nat /\ Len(ys) = m /\ \A i \in 1..m : ys[i] = xs[i]
  BY <1>1, FirstOf
<1>3. ASSUME NEW p \in k + 1..m - k
      PROVE  Turn(ys, p, k) <=> Turn(xs, p, k)
  <2>1. p \in 1..m /\ (\A j \in 1..k : p - j \in 1..m) /\ (\A j \in 1..k : p + j \in 1..m)
    BY <1>2
  <2>2. /\ ys[p] = xs[p] /\ (\A j \in 1..k : ys[p - j] = xs[p - j])
        /\ (\A j \in 1..k : ys[p + j] = xs[p + j])
    BY <1>2, <2>1
  <2> QED
    BY <2>2 DEF Turn
<1>4. Pivots(ys, k) = Found(xs, m, k)
  BY <1>2, <1>3 DEF Pivots, Found, Turn
<1>5. Found(xs, m, k) \in SUBSET (1..m)
  <2>1. \A p \in k + 1..m - k : p \in 1..m
    BY <1>2
  <2> QED
    BY <2>1 DEF Found
<1>6. IsFiniteSet(1..m)
  BY <1>2, FS_Interval
<1>7. IsFiniteSet(Found(xs, m, k)) /\ Cardinality(Found(xs, m, k)) \in Nat
  BY <1>5, <1>6, FS_Subset, FS_CardinalityType
<1> QED
  BY <1>1, <1>4, <1>5, <1>7

\* One more input confirms at most one pivot, later than all others.
LEMMA FoundNext ==
  ASSUME NEW xs, NEW r \in Nat, NEW k \in Nat \ {0}
  PROVE  /\ Found(xs, r + 1, k) =
              Found(xs, r, k) \cup
                (IF r + 1 > 2 * k /\ Turn(xs, r + 1 - k, k) THEN {r + 1 - k} ELSE {})
         /\ \A p \in Found(xs, r, k) : p < r + 1 - k
<1>1. \A p \in k + 1..r - k : p \in Int /\ p < r + 1 - k
  OBVIOUS
<1>2. CASE r + 1 > 2 * k
  <2>1. k + 1..(r + 1) - k = (k + 1..r - k) \cup {r + 1 - k}
    BY <1>2
  <2> QED
    BY <1>1, <1>2, <2>1 DEF Found
<1>3. CASE ~(r + 1 > 2 * k)
  <2>1. k + 1..(r + 1) - k = {} /\ k + 1..r - k = {}
    BY <1>3
  <2> QED
    BY <1>1, <1>3, <2>1 DEF Found
<1> QED
  BY <1>2, <1>3

\* The value of a trendline through the last two pivots.
Through(y1, p1, y2, p2, m) == <<y2 * (p2 - p1) + (y2 - y1) * (m - p2), p2 - p1>>
\* The trendline goes through the last two pivots found, when there are two.
LEMMA PivotMeaning ==
  ASSUME NEW cs \in Seq(Candle), NEW w \in Nat \ {0}, NEW m \in 1..Len(cs),
         NEW xs, xs = Inputs("pivot", cs), NEW found, found = Found(xs, m, w),
         NEW p2, p2 = Max(found), NEW p1, p1 = Max(found \ {p2})
  PROVE  /\ Cardinality(found) < 2 => Meaning("pivot", w, SubSeq(cs, 1, m)) = None
         /\ ~(Cardinality(found) < 2) =>
              /\ p1 \in 1..m /\ p2 \in 1..m
              /\ Meaning("pivot", w, SubSeq(cs, 1, m)) = Through(xs[p1], p1, xs[p2], p2, m)
<1>1. PICK ds : ds = SubSeq(cs, 1, m)
  OBVIOUS
<1>2. "pivot" \in Measuring /\ m \in 0..Len(cs) /\ m \in Nat
  BY DEF Measuring
<1>3. xs \in Seq(Int) /\ Len(xs) = Len(cs)
  BY <1>2, InputsIs
<1>4. PICK ys : ys = SubSeq(xs, 1, m)
  OBVIOUS
<1>5. ys = Inputs("pivot", ds)
  BY <1>1, <1>2, <1>4, FirstInputs
<1>6. m \in 0..Len(xs)
  BY <1>3
<1>7. Len(ys) = m /\ \A i \in 1..m : ys[i] = xs[i]
  BY <1>3, <1>4, <1>6, FirstOf
<1>8. /\ Pivots(ys, w) = found /\ found \in SUBSET (1..m)
      /\ IsFiniteSet(found) /\ Cardinality(found) \in Nat
  BY <1>3, <1>4, <1>6, FoundIs
<1>9. Meaning("pivot", w, ds) = IF Cardinality(found) < 2 THEN None ELSE LineThrough(ys, w)
  BY <1>5, <1>8 DEF Meaning
<1>10. ASSUME ~(Cardinality(found) < 2)
       PROVE  /\ p1 \in 1..m /\ p2 \in 1..m
              /\ LineThrough(ys, w) = Through(xs[p1], p1, xs[p2], p2, m)
  <2>1. found # {}
    BY <1>8, <1>10, FS_EmptySet
  <2>2. found \in SUBSET (0..m)
    BY <1>8
  <2>3. p2 \in found
    BY <1>2, <1>10, <2>1, <2>2, MaxIs
  <2>4. Cardinality(found \ {p2}) = Cardinality(found) - 1 /\ IsFiniteSet(found \ {p2})
    BY <1>8, <2>3, FS_RemoveElement
  <2>5. found \ {p2} # {}
    <3>1. Cardinality(found \ {p2}) # 0
      BY <1>8, <1>10, <2>4
    <3> QED
      BY <2>4, <3>1, FS_EmptySet
  <2>6. p1 \in found \ {p2}
    <3>1. found \ {p2} \in SUBSET (0..m)
      BY <2>2
    <3> QED
      BY <1>2, <1>10, <2>5, <3>1, MaxIs
  <2>7. p1 \in 1..m /\ p2 \in 1..m
    BY <1>8, <2>3, <2>6
  <2>8. LineThrough(ys, w) =
          <<ys[p2] * (p2 - p1) + (ys[p2] - ys[p1]) * (m - p2), p2 - p1>>
    BY <1>7, <1>8, <1>10 DEF LineThrough
  <2> QED
    BY <1>7, <2>7, <2>8 DEF Through
<1> QED
  BY <1>1, <1>9, <1>10

\* The prices around a new candle, as update looks at them.
LEMMA ConfirmedIs ==
  ASSUME NEW xs, NEW m \in Nat \ {0}, NEW k \in Nat \ {0}, Integral(xs, m), m > 2 * k,
         NEW p, p = m - k
  PROVE  Turn(xs, p, k) <=> /\ \A j \in p - k..p - 1 : xs[p] > xs[j]
                            /\ \A j \in p + 1..m : xs[p] >= xs[j]
<1>1. p \in Int /\ p + k = m
  OBVIOUS
<1>2. (\A j \in 1..k : xs[p] > xs[p - j]) <=> (\A j \in p - k..p - 1 : xs[p] > xs[j])
  <2>1. ASSUME \A j \in 1..k : xs[p] > xs[p - j], NEW j \in p - k..p - 1 PROVE xs[p] > xs[j]
    <3>1. p - j \in 1..k /\ p - (p - j) = j
      BY <1>1
    <3> QED
      BY <2>1, <3>1
  <2>2. ASSUME \A j \in p - k..p - 1 : xs[p] > xs[j], NEW j \in 1..k PROVE xs[p] > xs[p - j]
    <3>1. p - j \in p - k..p - 1
      BY <1>1
    <3> QED
      BY <2>2, <3>1
  <2> QED
    BY <2>1, <2>2
<1>3. (\A j \in 1..k : xs[p] >= xs[p + j]) <=> (\A j \in p + 1..m : xs[p] >= xs[j])
  <2>1. ASSUME \A j \in 1..k : xs[p] >= xs[p + j], NEW j \in p + 1..m PROVE xs[p] >= xs[j]
    <3>1. j - p \in 1..k /\ p + (j - p) = j
      BY <1>1
    <3> QED
      BY <2>1, <3>1
  <2>2. ASSUME \A j \in p + 1..m : xs[p] >= xs[j], NEW j \in 1..k PROVE xs[p] >= xs[p + j]
    <3>1. p + j \in p + 1..m
      BY <1>1
    <3> QED
      BY <2>2, <3>1
  <2> QED
    BY <2>1, <2>2
<1> QED
  BY <1>2, <1>3 DEF Turn

\* The last two pivots, by the number found.
Last2(found, pairs, p2, y2, p1, y1, xs) ==
  /\ pairs = Cardinality(found)
  /\ found # {} => p2 = Max(found) /\ y2 = xs[p2]
  /\ pairs >= 2 => p1 = Max(found \ {p2}) /\ y1 = xs[p1]

\* One pivot more, later than all before it.
LEMMA Last2More ==
  ASSUME NEW n \in Nat, NEW found \in SUBSET (1..n), NEW xs, NEW p \in 1..n,
         \A q \in found : q < p,
         NEW pairs, NEW p2, NEW y2, NEW p1, NEW y1, Last2(found, pairs, p2, y2, p1, y1, xs)
  PROVE  Last2(found \cup {p}, pairs + 1, p, xs[p], p2, y2, xs)
<1>1. IsFiniteSet(1..n)
  <2>1. 1 \in Int /\ n \in Int
    OBVIOUS
  <2> QED
    BY <2>1, FS_Interval
<1>2. IsFiniteSet(found) /\ Cardinality(found) \in Nat /\ p \notin found
  <2>1. IsFiniteSet(found)
    BY <1>1, FS_Subset
  <2>2. Cardinality(found) \in Nat
    BY <2>1, FS_CardinalityType
  <2>3. p \notin found
    <3> SUFFICES ASSUME p \in found PROVE FALSE
      OBVIOUS
    <3>1. p < p /\ p \in Int
      OBVIOUS
    <3> QED
      BY <3>1
  <2> QED
    BY <2>1, <2>2, <2>3
<1>3. Cardinality(found \cup {p}) = Cardinality(found) + 1
  BY <1>2, FS_AddElement
<1>4. Max(found \cup {p}) = p
  <2>1. found \cup {p} \in SUBSET (0..n) /\ found \cup {p} # {}
    OBVIOUS
  <2>2. PICK x : x = Max(found \cup {p})
    OBVIOUS
  <2>3. x \in found \cup {p} /\ \A y \in found \cup {p} : y <= x
    BY <2>1, <2>2, MaxIs
  <2>4. p <= x
    BY <2>3
  <2>5. x \notin found
    <3> SUFFICES ASSUME x \in found PROVE FALSE
      OBVIOUS
    <3>1. x < p /\ x \in 1..n
      OBVIOUS
    <3> QED
      BY <2>4, <3>1
  <2> QED
    BY <2>2, <2>3, <2>5
<1>5. (found \cup {p}) \ {p} = found
  BY <1>2
<1>6. pairs = Cardinality(found) /\ (pairs + 1 >= 2 => found # {})
  <2>1. pairs = Cardinality(found)
    BY DEF Last2
  <2>2. found = {} => pairs = 0
    BY <2>1, FS_EmptySet
  <2> QED
    BY <1>2, <2>1, <2>2
<1>7. found # {} => p2 = Max(found) /\ y2 = xs[p2]
  BY DEF Last2
<1> QED
  BY <1>3, <1>4, <1>5, <1>6, <1>7 DEF Last2

\* A deque of one entry keeps the last.
LEMMA PushOne ==
  ASSUME NEW a, NEW v
  PROVE  Push(<<a>>, v, 1) = <<v>>
<1>1. PICK X : X = {a, v}
  OBVIOUS
<1>2. PICK b : b = <<a>>
  OBVIOUS
<1>3. b \in Seq(X) /\ Len(b) = 1 /\ v \in X
  <2>1. a \in X /\ v \in X
    BY <1>1
  <2> QED
    BY <1>2, <2>1
<1>4. PICK c : c = Append(b, v)
  OBVIOUS
<1>5. c \in Seq(X) /\ Len(c) = Len(b) + 1 /\ c[Len(b) + 1] = v
  BY <1>3, <1>4, AppendProperties
<1>6. Len(c) = 2 /\ c[2] = v
  BY <1>3, <1>5
<1>7. PICK t : t = Tail(c)
  OBVIOUS
<1>8. t \in Seq(X) /\ Len(t) = Len(c) - 1 /\ \A i \in 1..Len(t) : t[i] = c[i + 1]
  <2>1. c # <<>>
    BY <1>6
  <2> QED
    BY <1>5, <1>7, <2>1, HeadTailProperties
<1>9. Len(t) = 1 /\ t[1] = v
  BY <1>6, <1>8
<1>10. t = <<v>>
  BY <1>8, <1>9
<1>11. Push(b, v, 1) = IF Len(c) > 1 THEN t ELSE c
  BY <1>4, <1>7 DEF Push
<1> QED
  BY <1>2, <1>6, <1>10, <1>11

\* One more candle for the pivots.
LEMMA PivotNext ==
  ASSUME NEW ind, NEW spec, NEW cs \in Seq(Candle), NEW m \in 1..Len(cs), NEW position,
         ind.kind = "pivot", ind.window \in Nat \ {0}, After(ind, spec, cs, m - 1)
  PROVE  After(Update(ind, cs[m], position), spec, cs, m)
<1>1. PICK k, d, xs : k = ind.window /\ d = ind.vals /\ xs = Inputs("pivot", cs)
  OBVIOUS
<1>2. "pivot" \in Measuring /\ m \in Nat \ {0} /\ k \in Nat \ {0} /\ Len(cs) \in Nat
  BY <1>1 DEF Measuring
<1>3. PICK r \in Nat : r = m - 1 /\ r + 1 = m /\ r \in 0..Len(cs) /\ m \in 0..Len(cs)
  OBVIOUS
<1>4. /\ xs \in Seq(Int) /\ Len(xs) = Len(cs) /\ \A i \in 1..Len(cs) : xs[i] \in Int
      /\ cs[m] \in Candle
      /\ xs[m] = Input("pivot", cs[m], None)
  <2>1. /\ xs \in Seq(Int) /\ Len(xs) = Len(cs) /\ \A i \in 1..Len(cs) : xs[i] \in Int
        /\ cs[m] \in Candle
        /\ xs[m] = Input("pivot", cs[m], IF m = 1 THEN None ELSE cs[m - 1].close)
    BY <1>1, <1>2, InputsIs
  <2> QED
    BY <2>1 DEF Input
<1>5. PICK f, g : f = Found(xs, r, k) /\ g = Found(xs, m, k)
  OBVIOUS
<1>6. /\ Pivots(SubSeq(xs, 1, r), k) = f /\ f \in SUBSET (1..r)
      /\ Pivots(SubSeq(xs, 1, m), k) = g /\ g \in SUBSET (1..m) /\ Cardinality(g) \in Nat
      /\ Cardinality(f) \in Nat /\ IsFiniteSet(g)
  <2>1. r \in 0..Len(xs) /\ m \in 0..Len(xs)
    BY <1>3, <1>4
  <2> QED
    BY <1>2, <1>4, <1>5, <2>1, FoundIs
<1>7. /\ DOMAIN ind = Fields /\ ind.kind = spec.kind /\ ind.window = spec.window
      /\ ind.out = IF ind.pairs < 2 THEN <<>> ELSE <<Values("pivot", k, cs)[r]>>
      /\ d = SubSeq(xs, 1, r)
      /\ Last2(f, ind.pairs, ind.p2, ind.y2, ind.p1, ind.y1, xs)
  <2>1. Turns(ind, xs, r) /\ Gives(ind, cs, r)
    BY <1>1, <1>3 DEF After, Work
  <2>2. Last2(f, ind.pairs, ind.p2, ind.y2, ind.p1, ind.y1, xs)
    BY <1>1, <1>6, <2>1 DEF Turns, Last2
  <2> QED
    BY <1>1, <2>1, <2>2 DEF After, Gives, Turns
<1>8. PICK vals : vals = Append(d, xs[m])
  OBVIOUS
<1>9. vals = SubSeq(xs, 1, m) /\ Len(vals) = m /\ \A i \in 1..m : vals[i] = xs[i]
  <2>1. d \in Seq(Int) /\ Len(d) = r /\ \A i \in 1..r : d[i] = xs[i]
    <3>1. r \in 0..Len(xs)
      BY <1>3, <1>4
    <3> QED
      BY <1>4, <1>7, <3>1, FirstOf
  <2>2. PICK s : s = SubSeq(xs, 1, m)
    OBVIOUS
  <2>3. s \in Seq(Int) /\ Len(s) = m /\ \A i \in 1..m : s[i] = xs[i]
    <3>1. m \in 0..Len(xs)
      BY <1>3, <1>4
    <3> QED
      BY <1>4, <2>2, <3>1, FirstOf
  <2>4. xs[m] \in Int
    BY <1>4
  <2>5. /\ vals \in Seq(Int) /\ Len(vals) = r + 1
        /\ \A i \in 1..r : vals[i] = d[i]
        /\ vals[r + 1] = xs[m]
    BY <1>8, <2>1, <2>4, AppendProperties
  <2>6. \A i \in 1..m : vals[i] = xs[i]
    <3> SUFFICES ASSUME NEW i \in 1..m PROVE vals[i] = xs[i]
      OBVIOUS
    <3>1. i = r + 1 \/ i \in 1..r
      BY <1>3
    <3> QED
      BY <1>3, <2>1, <2>5, <3>1
  <2>7. Len(vals) = m
    BY <1>3, <2>5
  <2>8. vals = s
    <3>1. /\ vals \in Seq(Int) /\ s \in Seq(Int) /\ Len(s) = Len(vals)
          /\ \A i \in 1..Len(vals) : vals[i] = s[i]
      <4>1. \A i \in 1..m : vals[i] = s[i]
        BY <2>3, <2>6
      <4>2. Len(s) = Len(vals)
        BY <2>3, <2>7
      <4>3. \A i \in 1..Len(vals) : vals[i] = s[i]
        BY <2>7, <4>1
      <4> QED
        BY <2>3, <2>5, <4>2, <4>3
    <3> QED
      BY <3>1, SeqEqual
  <2> QED
    BY <2>2, <2>6, <2>7, <2>8
<1>10. PICK p : p = m - k
  OBVIOUS
<1>11. PICK confirmed : confirmed = (m > 2 * k /\ Turn(xs, p, k))
  OBVIOUS
<1>12. /\ g = f \cup (IF confirmed THEN {p} ELSE {})
       /\ \A q \in f : q < p
  <2>1. /\ Found(xs, r + 1, k) =
             Found(xs, r, k) \cup
               (IF r + 1 > 2 * k /\ Turn(xs, r + 1 - k, k) THEN {r + 1 - k} ELSE {})
        /\ \A q \in Found(xs, r, k) : q < r + 1 - k
    BY <1>2, FoundNext
  <2>2. r + 1 = m /\ r + 1 - k = p
    BY <1>2, <1>3, <1>10
  <2>3. Found(xs, m, k) = Found(xs, r, k) \cup (IF m > 2 * k /\ Turn(xs, p, k) THEN {p} ELSE {})
    BY <2>1, <2>2
  <2>4. \A q \in Found(xs, r, k) : q < p
    BY <2>1, <2>2
  <2> QED
    BY <1>5, <1>11, <2>3, <2>4
<1>13. PICK next : next = IF confirmed
                          THEN [ind EXCEPT !.vals = vals, !.p1 = ind.p2, !.y1 = ind.y2,
                                           !.p2 = p, !.y2 = xs[p], !.pairs = @ + 1]
                          ELSE [ind EXCEPT !.vals = vals]
  OBVIOUS
<1>14. /\ DOMAIN next = Fields /\ next.vals = vals /\ next.out = ind.out
       /\ next.kind = ind.kind /\ next.window = ind.window
       /\ confirmed => /\ next.p1 = ind.p2 /\ next.y1 = ind.y2
                       /\ next.p2 = p /\ next.y2 = xs[p] /\ next.pairs = ind.pairs + 1
       /\ ~confirmed => /\ next.p1 = ind.p1 /\ next.y1 = ind.y1
                        /\ next.p2 = ind.p2 /\ next.y2 = ind.y2 /\ next.pairs = ind.pairs
  <2>1. CASE confirmed
    BY <1>7, <1>13, <2>1 DEF Fields
  <2>2. CASE ~confirmed
    BY <1>7, <1>13, <2>2 DEF Fields
  <2> QED
    BY <2>1, <2>2
<1>15. Last2(g, next.pairs, next.p2, next.y2, next.p1, next.y1, xs)
  <2>1. CASE confirmed
    <3>1. p \in 1..m /\ f \in SUBSET (1..m)
      <4>1. m > 2 * k
        BY <1>11, <2>1
      <4> QED
        BY <1>2, <1>3, <1>6, <1>10, <4>1
    <3>2. PICK pairs, p2, y2, p1, y1 : /\ pairs = ind.pairs /\ p2 = ind.p2 /\ y2 = ind.y2
                                       /\ p1 = ind.p1 /\ y1 = ind.y1
      OBVIOUS
    <3>3. Last2(f, pairs, p2, y2, p1, y1, xs)
      BY <1>7, <3>2
    <3>4. Last2(f \cup {p}, pairs + 1, p, xs[p], p2, y2, xs)
      BY <1>2, <1>12, <3>1, <3>3, Last2More
    <3>5. g = f \cup {p}
      BY <1>12, <2>1
    <3> QED
      BY <1>14, <2>1, <3>2, <3>4, <3>5
  <2>2. CASE ~confirmed
    <3>1. g = f
      BY <1>12, <2>2
    <3> QED
      BY <1>7, <1>14, <2>2, <3>1
  <2> QED
    BY <2>1, <2>2
<1>16. PICK e : e = Update(ind, cs[m], position)
  OBVIOUS
<1>17. PICK v : v = Through(next.y1, next.p1, next.y2, next.p2, m)
  OBVIOUS
<1>18. e = IF next.pairs < 2 THEN next ELSE Emit(next, v)
  <2>1. e = UpdatePivot(ind, cs[m])
    BY <1>16, UpdateIs
  <2>2. vals = Append(ind.vals, Input(ind.kind, cs[m], None))
    BY <1>1, <1>4, <1>8
  <2>3. confirmed = (/\ m > 2 * k
                     /\ \A j \in p - k..p - 1 : vals[p] > vals[j]
                     /\ \A j \in p + 1..m : vals[p] >= vals[j])
    <3>1. CASE m > 2 * k
      <4>1. Integral(xs, m)
        BY <1>4 DEF Integral
      <4>2. Turn(xs, p, k) <=> /\ \A j \in p - k..p - 1 : xs[p] > xs[j]
                               /\ \A j \in p + 1..m : xs[p] >= xs[j]
        BY <1>2, <1>10, <3>1, <4>1, ConfirmedIs
      <4>3. p \in 1..m /\ (\A j \in p - k..p - 1 : j \in 1..m) /\ (\A j \in p + 1..m : j \in 1..m)
        BY <1>2, <1>10, <3>1
      <4>4. /\ vals[p] = xs[p] /\ (\A j \in p - k..p - 1 : vals[j] = xs[j])
            /\ (\A j \in p + 1..m : vals[j] = xs[j])
        BY <1>9, <4>3
      <4> QED
        BY <1>11, <3>1, <4>2, <4>4
    <3>2. CASE ~(m > 2 * k)
      BY <1>11, <3>2
    <3> QED
      BY <3>1, <3>2
  <2>4. confirmed => vals[p] = xs[p]
    <3> SUFFICES ASSUME confirmed PROVE vals[p] = xs[p]
      OBVIOUS
    <3>1. m > 2 * k
      BY <1>11
    <3>2. p \in 1..m
      BY <1>2, <1>10, <3>1
    <3> QED
      BY <1>9, <3>2
  <2>5. next = IF confirmed
               THEN [ind EXCEPT !.vals = vals, !.p1 = ind.p2, !.y1 = ind.y2,
                                !.p2 = p, !.y2 = vals[p], !.pairs = @ + 1]
               ELSE [ind EXCEPT !.vals = vals]
    BY <1>13, <2>4
  <2>6. UpdatePivot(ind, cs[m]) =
          IF next.pairs < 2 THEN next
          ELSE Emit(next, <<next.y2 * (next.p2 - next.p1) + (next.y2 - next.y1) * (m - next.p2),
                            next.p2 - next.p1>>)
    <3> DEFINE all == Append(ind.vals, Input(ind.kind, cs[m], None))
               at == Len(all) - ind.window
               found == /\ Len(all) > 2 * ind.window
                        /\ \A j \in at - ind.window..at - 1 : all[at] > all[j]
                        /\ \A j \in at + 1..Len(all) : all[at] >= all[j]
               then == IF found
                       THEN [ind EXCEPT !.vals = all, !.p1 = ind.p2, !.y1 = ind.y2,
                                        !.p2 = at, !.y2 = all[at], !.pairs = @ + 1]
                       ELSE [ind EXCEPT !.vals = all]
    <3>1. UpdatePivot(ind, cs[m]) =
            IF then.pairs < 2 THEN then
            ELSE Emit(then,
                      <<then.y2 * (then.p2 - then.p1) + (then.y2 - then.y1) * (Len(all) - then.p2),
                        then.p2 - then.p1>>)
      BY DEF UpdatePivot
    <3>2. all = vals /\ Len(all) = m /\ at = p /\ ind.window = k
      BY <1>1, <1>9, <1>10, <2>2
    <3> HIDE DEF all, at
    <3>3. found <=> confirmed
      BY <2>3, <3>2
    <3> HIDE DEF found
    <3>4. then = next
      BY <2>5, <3>2, <3>3
    <3> HIDE DEF then
    <3> QED
      BY <3>1, <3>2, <3>4
  <2> QED
    BY <1>17, <2>1, <2>6 DEF Through
<1>19. /\ DOMAIN e = Fields /\ e.kind = "pivot" /\ e.window = k /\ e.vals = vals
       /\ e.pairs = next.pairs /\ e.p1 = next.p1 /\ e.y1 = next.y1
       /\ e.p2 = next.p2 /\ e.y2 = next.y2
       /\ e.out = IF next.pairs < 2 THEN next.out ELSE Push(next.out, v, 1)
  <2>1. CASE next.pairs < 2
    BY <1>1, <1>14, <1>18, <2>1
  <2>2. CASE ~(next.pairs < 2)
    <3>1. e = Emit(next, v)
      BY <1>18, <2>2
    <3>2. Kept(next.kind) = 1
      BY <1>14 DEF Kept
    <3> QED
      BY <1>1, <1>14, <2>2, <3>1, <3>2, EmitIs
  <2> QED
    BY <2>1, <2>2
<1>20. Work(e, cs, m)
  <2>1. Turns(e, xs, m)
    BY <1>6, <1>9, <1>15, <1>19 DEF Turns, Last2
  <2> QED
    BY <1>1, <1>19, <2>1 DEF Work, Rolling, Spread, Extreme
<1>21. Values("pivot", k, cs)[m] = Meaning("pivot", k, SubSeq(cs, 1, m))
  BY ValueAt
<1>22. ~(next.pairs < 2) => v = Meaning("pivot", k, SubSeq(cs, 1, m))
  <2> SUFFICES ASSUME ~(next.pairs < 2) PROVE v = Meaning("pivot", k, SubSeq(cs, 1, m))
    OBVIOUS
  <2>1. next.pairs = Cardinality(g) /\ g # {}
    <3>1. next.pairs = Cardinality(g)
      BY <1>15 DEF Last2
    <3>2. Cardinality({}) = 0
      BY FS_EmptySet
    <3>3. ASSUME g = {} PROVE FALSE
      <4>1. next.pairs = 0
        BY <3>1, <3>2, <3>3
      <4> QED
        BY <4>1
    <3> QED
      BY <3>1, <3>3
  <2>2. next.pairs >= 2
    BY <1>6, <2>1
  <2>3. PICK p1, p2 : p1 = next.p1 /\ p2 = next.p2
    OBVIOUS
  <2>4. p2 = Max(g) /\ next.y2 = xs[p2] /\ p1 = Max(g \ {p2}) /\ next.y1 = xs[p1]
    BY <1>15, <2>1, <2>2, <2>3 DEF Last2
  <2>5. Meaning("pivot", k, SubSeq(cs, 1, m)) = Through(xs[p1], p1, xs[p2], p2, m)
    <3>1. ~(Cardinality(g) < 2)
      BY <2>1
    <3> QED
      BY <1>1, <1>2, <1>5, <2>4, <3>1, PivotMeaning
  <2> QED
    BY <1>17, <2>3, <2>4, <2>5
<1>23. e.out = IF e.pairs < 2 THEN <<>> ELSE <<Values("pivot", k, cs)[m]>>
  <2>1. ind.pairs \in Nat /\ next.pairs \in Nat /\ (next.pairs < 2 => ind.pairs < 2)
    <3>1. ind.pairs = Cardinality(f) /\ next.pairs = Cardinality(g)
      BY <1>7, <1>15 DEF Last2
    <3>2. next.pairs = ind.pairs + 1 \/ next.pairs = ind.pairs
      BY <1>14
    <3> QED
      BY <1>6, <3>1, <3>2
  <2>2. CASE next.pairs < 2
    BY <1>7, <1>14, <1>19, <2>1, <2>2
  <2>3. CASE ~(next.pairs < 2)
    <3>1. e.out = Push(ind.out, v, 1) /\ v = Values("pivot", k, cs)[m]
      BY <1>14, <1>19, <1>21, <1>22, <2>3
    <3>2. Push(<<>>, v, 1) = <<v>>
      BY DEF Push
    <3>3. \A a : Push(<<a>>, v, 1) = <<v>>
      BY PushOne
    <3>4. e.out = <<v>>
      BY <1>7, <3>1, <3>2, <3>3
    <3> QED
      BY <1>19, <2>3, <3>1, <3>4
  <2> QED
    BY <2>2, <2>3
<1>24. Gives(e, cs, m)
  BY <1>19, <1>23 DEF Gives
<1> QED
  BY <1>1, <1>7, <1>16, <1>19, <1>20, <1>24 DEF After

-----------------------------------------------------------------------------
(* All kinds together, and what is read from an indicator.                 *)

\* One more candle for an indicator.
LEMMA UpdateAfter ==
  ASSUME NEW ind, NEW spec, spec.kind \in Valued, spec.window \in Nat \ {0},
         NEW cs \in Seq(Candle), NEW m \in 1..Len(cs), NEW position, After(ind, spec, cs, m - 1)
  PROVE  After(Update(ind, cs[m], position), spec, cs, m)
<1>1. ind.kind = spec.kind /\ ind.window = spec.window
  BY DEF After
<1>2. ind.window \in Nat \ {0}
  BY <1>1
<1>3. CASE ind.kind \in Rolling
  BY <1>2, <1>3, RollingNext
<1>4. CASE ind.kind \in Spread
  BY <1>2, <1>4, SpreadNext
<1>5. CASE ind.kind \in Extreme
  BY <1>2, <1>5, ExtremeNext
<1>6. CASE ind.kind = "adx"
  BY <1>2, <1>6, ADXNext
<1>7. CASE ind.kind = "taker"
  BY <1>2, <1>7, TakerNext
<1>8. CASE ind.kind = "pivot"
  BY <1>2, <1>8, PivotNext
<1> QED
  BY <1>1, <1>3, <1>4, <1>5, <1>6, <1>7, <1>8 DEF Valued, Vectorizable

\* There are no pivots before the first candle.
LEMMA NoneFound ==
  ASSUME NEW cs \in Seq(Candle), NEW w \in Nat \ {0}
  PROVE  /\ Inputs("pivot", cs) \in Seq(Int)
         /\ Pivots(SubSeq(Inputs("pivot", cs), 1, 0), w) = {}
         /\ SubSeq(Inputs("pivot", cs), 1, 0) = <<>>
<1>1. "pivot" \in Measuring
  BY DEF Measuring
<1>2. PICK xs : xs = Inputs("pivot", cs)
  OBVIOUS
<1>3. xs \in Seq(Int) /\ Len(xs) \in Nat
  BY <1>1, <1>2, InputsIs
<1>4. 0 \in 0..Len(xs)
  BY <1>3
<1>5. Pivots(SubSeq(xs, 1, 0), w) = Found(xs, 0, w)
  BY <1>3, <1>4, FoundIs
<1>6. Found(xs, 0, w) = {}
  <2>1. w + 1..0 - w = {}
    OBVIOUS
  <2> QED
    BY <2>1 DEF Found
<1>7. SubSeq(xs, 1, 0) = <<>>
  <2>1. PICK s : s = SubSeq(xs, 1, 0)
    OBVIOUS
  <2>2. s \in Seq(Int) /\ Len(s) = 0
    BY <1>3, <1>4, <2>1, FirstOf
  <2> QED
    BY <2>1, <2>2
<1> QED
  BY <1>2, <1>3, <1>5, <1>6, <1>7

\* An indicator that has seen nothing.
LEMMA FreshAfter ==
  ASSUME NEW spec, spec.kind \in Valued, spec.window \in Nat \ {0}, NEW cs \in Seq(Candle)
  PROVE  After(Fresh(spec), spec, cs, 0)
<1>1. PICK ind : ind = Fresh(spec)
  OBVIOUS
<1>2. /\ DOMAIN ind = Fields /\ ind.kind = spec.kind /\ ind.window = spec.window
      /\ ind.out = <<>> /\ ind.seen = 0 /\ ind.vals = <<>> /\ ind.sum = 0 /\ ind.prev = None
      /\ ind.buys = 0 /\ ind.missing = 0 /\ ind.pairs = 0
  BY <1>1 DEF Fresh, Fields
<1>3. \A f, lo, cap : lo \in Nat \ {0} => Holds(<<>>, f, lo, 0, cap)
  BY DEF Holds, Stored
<1>4. SumOf(<<>>) = 0
  BY SumEmpty
<1>5. /\ <<>> \in Seq(Int) /\ <<>> \in Seq(Value) /\ <<>> \in Seq(Taken)
      /\ <<>> \in Seq(Int \X Int) /\ 1 \in Nat \ {0}
  OBVIOUS
<1>6. \A k : Column(<<>>, k) = <<>>
  <2>1. DOMAIN <<>> = {}
    OBVIOUS
  <2> QED
    BY <2>1 DEF Column
<1>7. ind.kind \in Rolling => RollingWork(ind, cs, 0)
  BY <1>2, <1>3, <1>4, <1>5 DEF RollingWork, Window
<1>8. ind.kind \in Spread => Window(ind, Inputs(ind.kind, cs), 0)
  BY <1>2, <1>3, <1>5 DEF Window
<1>9. \A w \in Nat : Deque(<<>>, ind.kind, Inputs(ind.kind, cs), 0, w)
  BY <1>5 DEF Deque, Spans
<1>10. ind.kind = "taker" => TakerWork(ind, cs, 0)
  BY <1>2, <1>3, <1>4, <1>5, <1>6 DEF TakerWork
<1>11. ind.kind = "pivot" => Turns(ind, Inputs(ind.kind, cs), 0)
  <2>1. /\ Pivots(SubSeq(Inputs("pivot", cs), 1, 0), spec.window) = {}
        /\ SubSeq(Inputs("pivot", cs), 1, 0) = <<>>
    BY NoneFound
  <2>2. Cardinality({}) = 0
    BY FS_EmptySet
  <2> SUFFICES ASSUME ind.kind = "pivot" PROVE Turns(ind, Inputs(ind.kind, cs), 0)
    OBVIOUS
  <2>3. PICK found : found = Pivots(SubSeq(Inputs(ind.kind, cs), 1, 0), ind.window)
    OBVIOUS
  <2>4. /\ found = {} /\ ind.pairs = Cardinality(found)
        /\ ind.vals = SubSeq(Inputs(ind.kind, cs), 1, 0)
    BY <1>2, <2>1, <2>2, <2>3
  <2>5. ~(ind.pairs >= 2)
    BY <1>2
  <2> QED
    BY <2>3, <2>4, <2>5 DEF Turns
<1>12. Work(ind, cs, 0)
  BY <1>2, <1>7, <1>8, <1>9, <1>10, <1>11 DEF Work
<1>13. Gives(ind, cs, 0)
  <2>1. Ready(ind.kind, ind.window) \in Nat \ {0}
    BY <1>2 DEF Ready
  <2> QED
    BY <1>2, <1>3, <1>5, <2>1 DEF Gives
<1> QED
  BY <1>1, <1>2, <1>12, <1>13 DEF After

\* No kind means anything before the first candle.
LEMMA NoMeaning ==
  ASSUME NEW kind \in Valued, NEW w \in Nat \ {0}, NEW cs \in Seq(Candle)
  PROVE  Meaning(kind, w, SubSeq(cs, 1, 0)) = None
<1>1. PICK ds : ds = SubSeq(cs, 1, 0)
  OBVIOUS
<1>2. 0 \in 0..Len(cs) /\ Len(cs) \in Nat
  OBVIOUS
<1>3. ds \in Seq(Candle) /\ Len(ds) = 0
  BY <1>1, <1>2, FirstOf
<1>4. CASE kind = "pivot"
  <2>1. "pivot" \in Measuring
    BY DEF Measuring
  <2>2. Pivots(Inputs("pivot", ds), w) = {}
    BY <1>1, <1>2, <2>1, FirstInputs, NoneFound
  <2>3. Cardinality({}) = 0
    BY FS_EmptySet
  <2>4. Cardinality(Pivots(Inputs("pivot", ds), w)) < 2
    <3>1. PICK n : n = Cardinality(Pivots(Inputs("pivot", ds), w))
      OBVIOUS
    <3>2. n = 0
      BY <2>2, <2>3, <3>1
    <3> QED
      BY <3>1, <3>2
  <2>5. Meaning("pivot", w, ds) = IF Cardinality(Pivots(Inputs("pivot", ds), w)) < 2 THEN None
                                  ELSE LineThrough(Inputs("pivot", ds), w)
    BY DEF Meaning
  <2> QED
    BY <1>1, <1>4, <2>4, <2>5
<1>5. CASE kind # "pivot"
  <2>1. Len(ds) < w /\ Len(ds) < 2 * w
    BY <1>3
  <2> QED
    BY <1>1, <1>5, <2>1 DEF Meaning
<1> QED
  BY <1>4, <1>5

\* A value that is there is not the mark of one that is not.
LEMMA ValuesMarked == NaN \notin Int \cup Pair
BY SentinelAssumption

\* The last value read from an indicator is what its kind means.
LEMMA ReadAfter ==
  ASSUME NEW ind, NEW spec, spec.kind \in Valued, spec.window \in Nat \ {0},
         NEW cs \in Seq(Candle), NEW m \in 0..Len(cs), After(ind, spec, cs, m)
  PROVE  Read(ind, -1) = Meaning(spec.kind, spec.window, SubSeq(cs, 1, m))
<1>1. PICK kind, w, vs : kind = spec.kind /\ w = spec.window /\ vs = Values(kind, w, cs)
  OBVIOUS
<1>2. kind \in Valued /\ w \in Nat \ {0} /\ m \in Nat /\ Len(cs) \in Nat
  BY <1>1
<1>3. ind.kind = kind /\ ind.window = w /\ Gives(ind, cs, m) /\ Work(ind, cs, m)
  BY <1>1 DEF After
<1>4. Kept(ind.kind) \in Nat \ {0} /\ (kind = "pivot" => Kept(ind.kind) = 1)
  BY <1>3, HistoryAssumption DEF Kept
<1>5. PICK v : v = Meaning(kind, w, SubSeq(cs, 1, m))
  OBVIOUS
<1>6. m # 0 => vs[m] = v
  <2> SUFFICES ASSUME m # 0 PROVE vs[m] = v
    OBVIOUS
  <2>1. m \in 1..Len(cs)
    BY <1>2
  <2> QED
    BY <1>1, <1>5, <2>1, ValueAt
<1>7. m = 0 => v = None
  BY <1>2, <1>5, NoMeaning
<1>8. NaN \notin Int \cup Pair
  BY ValuesMarked
<1>9. CASE kind # "pivot"
  <2>1. PICK lo : lo = Ready(kind, w)
    OBVIOUS
  <2>2. lo \in Nat \ {0}
    BY <1>2, <2>1 DEF Ready
  <2>3. ind.out \in Seq(Value) /\ Holds(ind.out, vs, lo, m, Kept(ind.kind))
    BY <1>1, <1>3, <1>9, <2>1 DEF Gives
  <2>4. /\ m < lo => Read(ind, -1) = None
        /\ ~(m < lo) => Read(ind, -1) = IF vs[m] = NaN THEN None ELSE vs[m]
    <3>1. m \in Nat /\ Kept(ind.kind) \in Nat \ {0}
      BY <1>2, <1>4
    <3> QED
      BY <2>2, <2>3, <3>1, ReadLast
  <2>5. CASE m < lo
    <3>1. v = None
      <4>1. CASE m = 0
        BY <1>7, <4>1
      <4>2. CASE m # 0
        <5>1. kind \notin Extreme
          BY <1>2, <2>1, <2>5, <4>2 DEF Ready
        <5>2. PICK ds : ds = SubSeq(cs, 1, m)
          OBVIOUS
        <5>3. Len(ds) = m
          BY <5>2, FirstOf
        <5>4. kind = "adx" => m < 2 * w
          BY <2>1, <2>5 DEF Ready, Extreme
        <5>5. kind # "adx" => m < w
          BY <2>1, <2>5, <5>1 DEF Ready
        <5> QED
          BY <1>5, <1>9, <5>2, <5>3, <5>4, <5>5 DEF Meaning
      <4> QED
        BY <4>1, <4>2
    <3> QED
      BY <1>1, <1>5, <2>4, <2>5, <3>1
  <2>6. CASE ~(m < lo)
    <3>1. m # 0
      BY <2>2, <2>6
    <3>2. vs[m] = NaN => v = None
      <4>1. PICK k : k = Stored(lo, m, Kept(ind.kind))
        OBVIOUS
      <4>2. k \in 1..m
        BY <1>2, <1>4, <2>2, <2>6, <4>1 DEF Stored
      <4>3. Len(ind.out) = k /\ ind.out[k] = vs[m - k + k] /\ m - k + k = m
        BY <1>2, <2>3, <4>1, <4>2 DEF Holds
      <4>4. vs[m] \in Value
        BY <2>3, <4>2, <4>3
      <4> QED
        BY <1>6, <1>8, <3>1, <4>4 DEF Value
    <3> QED
      BY <1>1, <1>5, <1>6, <2>4, <2>6, <3>1, <3>2
  <2> QED
    BY <2>5, <2>6
<1>10. CASE kind = "pivot"
  <2>1. PICK xs, found : xs = Inputs("pivot", cs) /\ found = Found(xs, m, w)
    OBVIOUS
  <2>2. "pivot" \in Measuring
    BY DEF Measuring
  <2>3. xs \in Seq(Int) /\ Len(xs) = Len(cs)
    BY <2>1, <2>2, InputsIs
  <2>4. m \in 0..Len(xs)
    BY <2>3
  <2>5. Pivots(SubSeq(xs, 1, m), w) = found
    BY <1>2, <2>1, <2>3, <2>4, FoundIs
  <2>6. ind.pairs = Cardinality(found)
    BY <1>3, <1>10, <2>1, <2>5 DEF Work, Turns
  <2>7. ind.out = IF ind.pairs < 2 THEN <<>> ELSE <<vs[m]>>
    BY <1>1, <1>3, <1>10 DEF Gives
  <2>8. CASE ind.pairs < 2
    <3>1. v = None
      <4>1. CASE m = 0
        BY <1>7, <4>1
      <4>2. CASE m # 0
        <5>1. m \in 1..Len(cs) /\ Cardinality(found) < 2
          BY <1>2, <2>6, <2>8, <4>2
        <5> QED
          BY <1>2, <1>5, <1>10, <2>1, <5>1, PivotMeaning
      <4> QED
        BY <4>1, <4>2
    <3>2. ind.out = <<>> /\ Len(<<>>) + (-1) + 1 < 1
      BY <2>7, <2>8
    <3>3. Read(ind, -1) = None
      BY <1>4, <1>10, <3>2 DEF Read
    <3> QED
      BY <1>1, <1>5, <3>1, <3>3
  <2>9. CASE ~(ind.pairs < 2)
    <3>1. m # 0
      <4> SUFFICES ASSUME m = 0 PROVE FALSE
        OBVIOUS
      <4>1. found = {}
        BY <1>2, <2>1, <2>5, NoneFound
      <4>2. Cardinality({}) = 0
        BY FS_EmptySet
      <4>3. ind.pairs = 0
        BY <2>6, <4>1, <4>2
      <4> QED
        BY <2>9, <4>3
    <3>2. m \in 1..Len(cs) /\ ~(Cardinality(found) < 2)
      BY <1>2, <2>6, <2>9, <3>1
    <3>3. PICK p2 : p2 = Max(found)
      OBVIOUS
    <3>4. PICK p1 : p1 = Max(found \ {p2})
      OBVIOUS
    <3>5. p1 \in 1..m /\ p2 \in 1..m /\ v = Through(xs[p1], p1, xs[p2], p2, m)
      BY <1>2, <1>5, <1>10, <2>1, <3>2, <3>3, <3>4, PivotMeaning
    <3>6. v \in Pair
      <4>1. p1 \in Int /\ p2 \in Int /\ xs[p1] \in Int /\ xs[p2] \in Int
        BY <2>3, <3>2, <3>5
      <4>2. PICK y1, y2 : y1 = xs[p1] /\ y2 = xs[p2]
        OBVIOUS
      <4>3. y2 * (p2 - p1) + (y2 - y1) * (m - p2) \in Int /\ p2 - p1 \in Int
        BY <1>2, <4>1, <4>2
      <4> QED
        BY <3>5, <4>2, <4>3 DEF Through, Pair
    <3>7. ind.out = <<v>>
      BY <1>6, <2>7, <2>9, <3>1
    <3>8. Len(ind.out) = 1 /\ ind.out[1] = v
      BY <3>7
    <3>9. Read(ind, -1) = IF v = NaN THEN None ELSE v
      BY <1>4, <1>10, <3>8 DEF Read
    <3> QED
      BY <1>1, <1>5, <1>8, <3>6, <3>9
  <2> QED
    BY <2>8, <2>9
<1> QED
  BY <1>9, <1>10

-----------------------------------------------------------------------------
(* The live loop reads what is meant: every indicator has seen the candles *)
(* before the cursor of its symbol.                                        *)

\* The indicators of a loop have seen the candles before its cursors.
Fed(loop) ==
  /\ DOMAIN loop.ind = Traded
  /\ \A s \in Traded :
       /\ DOMAIN loop.ind[s] = DOMAIN Plan[s]
       /\ loop.head[s] - 1 \in 0..Len(market[s])
       /\ \A j \in DOMAIN Plan[s] : Plan[s][j].kind \in Valued =>
            After(loop.ind[s][j], Plan[s][j], market[s], loop.head[s] - 1)

\* A symbol with indicators, and one of them.
LEMMA PlanIs ==
  ASSUME market \in Markets, NEW s \in Traded
  PROVE  /\ s \in Names /\ market[s] \in Seq(Candle) /\ Len(market[s]) \in Nat
         /\ \A j \in DOMAIN Plan[s] : Plan[s][j].kind \in Kinds /\ Plan[s][j].window \in Nat \ {0}
<1>1. s \in Names
  <2>1. PICK i \in DOMAIN Streamed : s = Streamed[i]
    BY DEF Traded, ToSet
  <2>2. \A t \in Seq(Names) : \A i2 \in DOMAIN t : t[i2] \in Names
    OBVIOUS
  <2> QED
    BY <2>1, <2>2, LoopAssumption
<1>2. market[s] \in Seq(Candle)
  BY <1>1, LoopAssumption
<1>3. Plan[s] \in Seq(Configured)
  BY LoopAssumption
<1>4. \A j \in DOMAIN Plan[s] : Plan[s][j] \in Configured
  BY <1>3
<1>5. \A j \in DOMAIN Plan[s] : Plan[s][j].kind \in Kinds /\ Plan[s][j].window \in Nat \ {0}
  BY <1>4 DEF Configured, Kinds
<1> QED
  BY <1>1, <1>2, <1>5

\* Before the first event no indicator has seen a candle.
LEMMA FreshFed ==
  ASSUME market \in Markets
  PROVE  Fed(NewLoop)
<1>1. PICK loop : loop = NewLoop
  OBVIOUS
<1>2. loop.ind = FreshIndicators /\ loop.head = [s \in Names |-> 1]
  BY <1>1 DEF NewLoop
<1>3. ASSUME NEW s \in Traded
      PROVE  /\ DOMAIN loop.ind[s] = DOMAIN Plan[s]
             /\ loop.head[s] - 1 \in 0..Len(market[s])
             /\ \A j \in DOMAIN Plan[s] : Plan[s][j].kind \in Valued =>
                  After(loop.ind[s][j], Plan[s][j], market[s], loop.head[s] - 1)
  <2>1. /\ s \in Names /\ market[s] \in Seq(Candle) /\ Len(market[s]) \in Nat
        /\ \A j \in DOMAIN Plan[s] : Plan[s][j].kind \in Kinds /\ Plan[s][j].window \in Nat \ {0}
    BY PlanIs
  <2>2. loop.head[s] - 1 = 0
    BY <1>2, <2>1
  <2>3. loop.ind[s] = [j \in DOMAIN Plan[s] |-> Fresh(Plan[s][j])]
    BY <1>2 DEF FreshIndicators
  <2>4. ASSUME NEW j \in DOMAIN Plan[s], Plan[s][j].kind \in Valued
        PROVE  After(loop.ind[s][j], Plan[s][j], market[s], loop.head[s] - 1)
    <3>1. PICK spec, cs : spec = Plan[s][j] /\ cs = market[s]
      OBVIOUS
    <3>2. spec.kind \in Valued /\ spec.window \in Nat \ {0} /\ cs \in Seq(Candle)
      BY <2>1, <2>4, <3>1
    <3>3. After(Fresh(spec), spec, cs, 0)
      BY <3>2, FreshAfter
    <3> QED
      BY <2>2, <2>3, <3>1, <3>3
  <2>5. loop.head[s] - 1 \in 0..Len(market[s])
    BY <2>1, <2>2
  <2>6. DOMAIN loop.ind[s] = DOMAIN Plan[s]
    BY <2>3
  <2> QED
    BY <2>4, <2>5, <2>6
<1>4. DOMAIN loop.ind = Traded
  BY <1>2 DEF FreshIndicators
<1> QED
  BY <1>1, <1>3, <1>4 DEF Fed

\* One event of the live loop.
LEMMA LiveFed ==
  ASSUME NEW loop, loop.head \in Cursors, market \in Markets, Waiting(loop.head) # {},
         Fed(loop), NEW actions, NEW next, next = LiveLoop(loop, actions)
  PROVE  Fed(next)
<1>1. PICK h, event, b : h = loop.head /\ event = Event(loop.head) /\ b = Begun(loop)
  OBVIOUS
<1>2. /\ DOMAIN event = Batch(h)
      /\ \A s \in Batch(h) : event[s] = market[s][h[s]] /\ h[s] <= Len(market[s])
  BY <1>1, NextEvent
<1>3. /\ next.head = Advanced(h)
      /\ next.ind = [s \in Traded |-> IF s \notin DOMAIN event THEN loop.ind[s]
                       ELSE [j \in DOMAIN loop.ind[s] |->
                               Update(loop.ind[s][j], event[s], b.pos[s])]]
  BY <1>1 DEF LiveLoop
<1>4. ASSUME NEW s \in Traded
      PROVE  /\ DOMAIN next.ind[s] = DOMAIN Plan[s]
             /\ next.head[s] - 1 \in 0..Len(market[s])
             /\ \A j \in DOMAIN Plan[s] : Plan[s][j].kind \in Valued =>
                  After(next.ind[s][j], Plan[s][j], market[s], next.head[s] - 1)
  <2>1. PICK cs, m : cs = market[s] /\ m = h[s]
    OBVIOUS
  <2>2. /\ s \in Names /\ cs \in Seq(Candle) /\ Len(cs) \in Nat
        /\ \A j \in DOMAIN Plan[s] : Plan[s][j].kind \in Kinds /\ Plan[s][j].window \in Nat \ {0}
    BY <2>1, PlanIs
  <2>3. m \in Nat \ {0}
    BY <1>1, <2>1, <2>2 DEF Cursors
  <2>4. /\ DOMAIN loop.ind[s] = DOMAIN Plan[s] /\ m - 1 \in 0..Len(cs)
        /\ \A j \in DOMAIN Plan[s] : Plan[s][j].kind \in Valued =>
             After(loop.ind[s][j], Plan[s][j], cs, m - 1)
    BY <1>1, <2>1 DEF Fed
  <2>5. CASE s \in Batch(h)
    <3>1. m \in 1..Len(cs) /\ event[s] = cs[m]
      BY <1>2, <2>1, <2>2, <2>3, <2>5
    <3>2. next.head[s] = m + 1
      BY <1>3, <2>1, <2>2, <2>5 DEF Advanced
    <3>3. next.head[s] - 1 = m
      BY <2>3, <3>2
    <3>4. next.ind[s] = [j \in DOMAIN Plan[s] |-> Update(loop.ind[s][j], event[s], b.pos[s])]
      BY <1>2, <1>3, <2>4, <2>5
    <3>5. ASSUME NEW j \in DOMAIN Plan[s], Plan[s][j].kind \in Valued
          PROVE  After(next.ind[s][j], Plan[s][j], cs, m)
      <4>1. PICK ind, spec, p : ind = loop.ind[s][j] /\ spec = Plan[s][j] /\ p = b.pos[s]
        OBVIOUS
      <4>2. spec.kind \in Valued /\ spec.window \in Nat \ {0} /\ After(ind, spec, cs, m - 1)
        BY <2>2, <2>4, <3>5, <4>1
      <4>3. After(Update(ind, cs[m], p), spec, cs, m)
        BY <2>2, <3>1, <4>2, UpdateAfter
      <4>4. next.ind[s][j] = Update(ind, cs[m], p)
        BY <3>1, <3>4, <4>1
      <4> QED
        BY <4>1, <4>3, <4>4
    <3>6. m \in 0..Len(cs)
      BY <3>1
    <3> QED
      BY <2>1, <3>3, <3>4, <3>5, <3>6
  <2>6. CASE s \notin Batch(h)
    <3>1. next.head[s] = m
      BY <1>3, <2>1, <2>2, <2>6 DEF Advanced
    <3>2. next.ind[s] = loop.ind[s]
      BY <1>2, <1>3, <2>6
    <3> QED
      BY <2>1, <2>4, <3>1, <3>2
  <2> QED
    BY <2>5, <2>6
<1>5. DOMAIN next.ind = Traded
  BY <1>3
<1> QED
  BY <1>4, <1>5 DEF Fed

LiveIsFed == LoopShape /\ Fed(live)

\* The live loop keeps to it, on a late event too.
LEMMA NextFed == LiveIsFed /\ [NextLoops]_loopVars => LiveIsFed'
<1> SUFFICES ASSUME LiveIsFed, [NextLoops]_loopVars PROVE LiveIsFed'
  OBVIOUS
<1>1. LoopShape'
  BY NextShape DEF LiveIsFed
<1>2. ASSUME UNCHANGED <<market, live>> PROVE Fed(live)'
  BY <1>2 DEF Fed, LiveIsFed
<1>3. CASE Start \/ BacktestEvent \/ UNCHANGED loopVars
  BY <1>1, <1>2, <1>3 DEF LiveIsFed, Start, BacktestEvent, loopVars
<1>4. ASSUME NEW actions, live' = LiveLoop(live, actions), market' = market, Waiting(live.head) # {}
      PROVE  Fed(live)'
  <2>1. PICK l, n : l = live /\ n = LiveLoop(l, actions)
    OBVIOUS
  <2>2. l.head \in Cursors /\ market \in Markets /\ Waiting(l.head) # {} /\ Fed(l)
    BY <1>4, <2>1 DEF LiveIsFed, LoopShape
  <2>3. Fed(n)
    BY <2>1, <2>2, LiveFed
  <2>4. live' = n
    BY <1>4, <2>1
  <2> QED
    BY <1>4, <2>3, <2>4 DEF Fed
<1>5. ASSUME NEW actions \in ActionLists, LiveEvent(actions) PROVE Fed(live)'
  BY <1>4, <1>5 DEF LiveEvent
<1>6. ASSUME NEW actions \in LateLists, NEW refused, LateEvent(actions, refused) PROVE Fed(live)'
  BY <1>4, <1>6 DEF LateEvent
<1> QED
  BY <1>1, <1>3, <1>5, <1>6 DEF NextLoops, LiveIsFed

\* What has seen those candles reads what its kind means.
LEMMA FedReads == LiveIsFed => ReadsMatchMeaning
<1> SUFFICES ASSUME LiveIsFed, NEW s \in Traded, NEW j \in DOMAIN Plan[s],
                    Plan[s][j].kind \notin {"age", "supertrend"}
             PROVE  Read(live.ind[s][j], -1) = Meaning(Plan[s][j].kind, Plan[s][j].window, Past(s))
  BY DEF ReadsMatchMeaning
<1>1. PICK ind, spec, cs, m : /\ ind = live.ind[s][j] /\ spec = Plan[s][j]
                              /\ cs = market[s] /\ m = live.head[s] - 1
  OBVIOUS
<1>2. market \in Markets /\ Fed(live)
  BY DEF LiveIsFed, LoopShape
<1>3. cs \in Seq(Candle) /\ spec.kind \in Kinds /\ spec.window \in Nat \ {0}
  BY <1>1, <1>2, PlanIs
<1>4. spec.kind \in Valued
  BY <1>1, <1>3 DEF Kinds, Valued, LoopOnly
<1>5. m \in 0..Len(cs) /\ After(ind, spec, cs, m)
  BY <1>1, <1>2, <1>4 DEF Fed
<1>6. Read(ind, -1) = Meaning(spec.kind, spec.window, SubSeq(cs, 1, m))
  BY <1>3, <1>4, <1>5, ReadAfter
<1>7. Past(s) = SubSeq(cs, 1, m)
  BY <1>1 DEF Past
<1> QED
  BY <1>1, <1>6, <1>7

(***************************************************************************)
(* For any candles and any plan, the last value the live loop can read     *)
(* from an indicator is what its window, or its whole past, comes to when  *)
(* it is looked at afresh (update of each indicator in core/indicators).   *)
(***************************************************************************)
THEOREM ReadsAreMeant == SpecLoops => []ReadsMatchMeaning
<1>1. InitLoops => LiveIsFed
  BY InitShape, FreshFed DEF InitLoops, LiveIsFed, LoopShape, Fed
<1> QED
  BY <1>1, NextFed, FedReads, PTL DEF SpecLoops

-----------------------------------------------------------------------------
(* Warm-up: a fold over the last window of candles and one more.           *)

\* What an indicator runs through over some candles.
Feeds(f, first, zs, n) ==
  f[0] = first /\ \A i \in 1..n : f[i] = Update(f[i - 1], zs[i], None)

\* FoldLeft runs through such values.
LEMMA UpdatesRun ==
  ASSUME NEW first, NEW zs, NEW n \in Nat, DOMAIN zs = 1..n
  PROVE  \E f : /\ Feeds(f, first, zs, n)
                /\ FoldLeft(LAMBDA ind, c : Update(ind, c, None), first, zs) = f[n]
<1> DEFINE By(h) == h = [T \in SUBSET (1..n) |->
                           IF T = {} THEN first ELSE Update(h[T \ {Max(T)}], zs[Max(T)], None)]
           Good(m, h) == \A T \in SUBSET (1..m) :
             h[T] = IF T = {} THEN first ELSE Update(h[T \ {Max(T)}], zs[Max(T)], None)
           S == {m \in 0..n : \E h : Good(m, h)}
<1>1. 0 \in S
  <2>1. 1..0 = {}
    OBVIOUS
  <2> DEFINE h == [T \in SUBSET (1..0) |-> first]
  <2>2. Good(0, h)
    BY <2>1
  <2> HIDE DEF Good, h
  <2> QED
    BY <2>2
<1>2. ASSUME NEW m \in 1..n, m - 1 \in S PROVE m \in S
  <2>1. PICK h : Good(m - 1, h)
    BY <1>2
  <2>2. m \in 1..n /\ 1..m = (1..(m - 1)) \cup {m}
    OBVIOUS
  <2> DEFINE e == [T \in SUBSET (1..m) |->
                     IF m \in T THEN Update(h[T \ {m}], zs[m], None) ELSE h[T]]
  <2>3. \A T \in SUBSET (1..m) : m \notin T => T \in SUBSET (1..(m - 1))
    BY <2>2
  <2>4. \A T \in SUBSET (1..m) : m \in T => Max(T) = m
    <3> SUFFICES ASSUME NEW T \in SUBSET (1..m), m \in T PROVE Max(T) = m
      OBVIOUS
    <3>1. T \in SUBSET (0..m) /\ m \in Nat
      OBVIOUS
    <3>2. Max(T) \in T /\ m <= Max(T)
      BY <3>1, MaxIs
    <3>3. Max(T) \in 1..m
      BY <3>2
    <3> QED
      BY <3>2, <3>3
  <2>5. ASSUME NEW T \in SUBSET (1..m)
        PROVE  e[T] = IF T = {} THEN first ELSE Update(e[T \ {Max(T)}], zs[Max(T)], None)
    <3>1. CASE m \in T
      <4>1. Max(T) = m /\ T # {}
        BY <2>4, <3>1
      <4>2. e[T \ {m}] = h[T \ {m}]
        OBVIOUS
      <4> HIDE DEF e
      <4>3. e[T] = Update(h[T \ {m}], zs[m], None)
        BY <3>1 DEF e
      <4> QED
        BY <4>1, <4>2, <4>3
    <3>2. CASE m \notin T
      <4>1. T \in SUBSET (1..(m - 1))
        BY <2>3, <3>2
      <4>2. e[T] = h[T]
        BY <3>2
      <4>3. h[T] = IF T = {} THEN first ELSE Update(h[T \ {Max(T)}], zs[Max(T)], None)
        BY <2>1, <4>1
      <4>4. e[T \ {Max(T)}] = h[T \ {Max(T)}]
        BY <3>2
      <4> HIDE DEF e
      <4> QED
        BY <4>2, <4>3, <4>4
    <3> QED
      BY <3>1, <3>2
  <2> HIDE DEF e
  <2>6. Good(m, e)
    BY <2>5
  <2> HIDE DEF Good
  <2> QED
    BY <2>6
<1>3. n \in S
  <2> HIDE DEF S
  <2>1. \A i \in 0..n : i \in S
    BY <1>1, <1>2, UpTo
  <2> QED
    BY <2>1
<1>4. PICK g : Good(n, g)
  BY <1>3
<1>5. \E h : By(h)
  <2>1. PICK h : h = [T \in SUBSET (1..n) |-> g[T]]
    OBVIOUS
  <2>2. h = [T \in SUBSET (1..n) |->
               IF T = {} THEN first ELSE Update(g[T \ {Max(T)}], zs[Max(T)], None)]
    BY <1>4, <2>1
  <2>3. \A T \in SUBSET (1..n) : h[T \ {Max(T)}] = g[T \ {Max(T)}]
    BY <2>1
  <2>4. By(h)
    BY <2>2, <2>3
  <2> HIDE DEF By
  <2> QED
    BY <2>4
<1>6. FoldLeft(LAMBDA ind, c : Update(ind, c, None), first, zs) = (CHOOSE h : By(h))[1..n]
  BY DEF FoldLeft, MapThenFoldSet
<1>7. PICK h : h = (CHOOSE k : By(k)) /\ By(h)
  <2> HIDE DEF By
  <2> QED
    BY <1>5
<1>8. PICK f : f = [i \in 0..n |-> h[1..i]]
  OBVIOUS
<1>9. f[0] = first
  <2>1. 1..0 = {} /\ {} \in SUBSET (1..n) /\ 0 \in 0..n
    OBVIOUS
  <2>2. h[{}] = first
    BY <1>7, <2>1
  <2> QED
    BY <1>8, <2>1, <2>2
<1>10. ASSUME NEW i \in 1..n PROVE f[i] = Update(f[i - 1], zs[i], None)
  <2>1. i \in 0..n /\ i - 1 \in 0..n
    OBVIOUS
  <2>2. PICK T : T = 1..i
    OBVIOUS
  <2>3. T \in SUBSET (1..n) /\ T # {} /\ Max(T) = i /\ T \ {Max(T)} = 1..(i - 1)
    BY <2>2, PrefixMax
  <2>4. h[T] = Update(h[T \ {Max(T)}], zs[Max(T)], None)
    BY <1>7, <2>3
  <2>5. h[T] = Update(h[1..(i - 1)], zs[i], None)
    BY <2>3, <2>4
  <2> QED
    BY <1>8, <2>1, <2>2, <2>5
<1>11. f[n] = h[1..n]
  BY <1>8
<1> QED
  BY <1>6, <1>7, <1>9, <1>10, <1>11 DEF Feeds

\* What it has after each of them.
LEMMA RunAfter ==
  ASSUME NEW spec, spec.kind \in Valued, spec.window \in Nat \ {0}, NEW zs \in Seq(Candle),
         NEW f, Feeds(f, Fresh(spec), zs, Len(zs))
  PROVE  After(f[Len(zs)], spec, zs, Len(zs))
<1>1. PICK n \in Nat : n = Len(zs)
  OBVIOUS
<1> DEFINE S == {i \in 0..n : After(f[i], spec, zs, i)}
<1>2. 0 \in S
  BY FreshAfter DEF Feeds
<1>3. ASSUME NEW i \in 1..n, i - 1 \in S PROVE i \in S
  <2>1. i \in 1..Len(zs) /\ After(f[i - 1], spec, zs, i - 1)
    BY <1>1, <1>3
  <2>2. PICK a : a = f[i - 1]
    OBVIOUS
  <2>3. After(Update(a, zs[i], None), spec, zs, i)
    BY <2>1, <2>2, UpdateAfter
  <2>4. f[i] = Update(a, zs[i], None)
    BY <1>1, <2>2 DEF Feeds
  <2> QED
    BY <2>3, <2>4
<1>4. n \in S
  <2> HIDE DEF S
  <2>1. \A i \in 0..n : i \in S
    BY <1>2, <1>3, UpTo
  <2> QED
    BY <2>1
<1> QED
  BY <1>1, <1>4

\* The last candles of a past, one more than the window.
Ends(zs, cs, m, w) ==
  Len(zs) = w + 1 /\ \A i \in 1..w + 1 : zs[i] = cs[m - (w + 1) + i]

\* There are such candles, and they are what warmup feeds.
LEMMA EndsExist ==
  ASSUME NEW cs \in Seq(Candle), NEW w \in Nat \ {0}, NEW m \in 1..Len(cs), w < m
  PROVE  \E zs \in Seq(Candle) : /\ LastOf(SubSeq(cs, 1, m), w + 1) = zs
                                 /\ Ends(zs, cs, m, w) /\ DOMAIN zs = 1..w + 1
<1>1. PICK n \in Nat \ {0} : n = w + 1
  OBVIOUS
<1>2. n <= m
  BY <1>1
<1>3. PICK zs \in Seq(Candle) : Holds(zs, cs, 1, m, n)
  BY <1>2, WindowExists
<1>4. Stored(1, m, n) = n
  BY <1>2 DEF Stored
<1>5. Len(zs) = n /\ DOMAIN zs = 1..n /\ \A k \in 1..n : zs[k] = cs[m - n + k]
  <2>1. Len(zs) = n /\ \A k \in 1..n : zs[k] = cs[m - n + k]
    BY <1>3, <1>4 DEF Holds
  <2> QED
    BY <2>1, LenProperties
<1>6. LastOf(SubSeq(cs, 1, m), n) = zs
  BY <1>2, <1>3, LastIs
<1> QED
  BY <1>1, <1>5, <1>6 DEF Ends

\* What the last w inputs are does not depend on the candles before the last w + 1.
LEMMA SameInputs ==
  ASSUME NEW kind \in Measuring, NEW cs \in Seq(Candle), NEW zs \in Seq(Candle),
         NEW w \in Nat \ {0}, NEW m \in 1..Len(cs), w < m, Ends(zs, cs, m, w)
  PROVE  \A i \in 1..w : Inputs(kind, zs)[i + 1] = Inputs(kind, cs)[m - w + i]
<1> SUFFICES ASSUME NEW i \in 1..w
             PROVE  Inputs(kind, zs)[i + 1] = Inputs(kind, cs)[m - w + i]
  OBVIOUS
<1>1. Len(cs) \in Nat /\ m \in Nat /\ i \in Nat \ {0}
  OBVIOUS
<1>2. PICK k : k = m - w + i
  OBVIOUS
<1>3. /\ k \in 1..Len(cs) /\ k # 1 /\ k \in Int /\ i + 1 \in 1..w + 1 /\ i + 1 # 1 /\ i \in 1..w + 1
      /\ m - (w + 1) + (i + 1) = k /\ m - (w + 1) + i = k - 1 /\ i + 1 - 1 = i
  BY <1>1, <1>2
<1>4. Len(zs) = w + 1 /\ zs[i + 1] = cs[k] /\ zs[i] = cs[k - 1]
  BY <1>3 DEF Ends
<1>5. PICK u : u = i + 1
  OBVIOUS
<1>6. Inputs(kind, zs)[u] = Input(kind, zs[u], IF u = 1 THEN None ELSE zs[u - 1].close)
  <2>1. u \in 1..Len(zs)
    BY <1>3, <1>4, <1>5
  <2> QED
    BY <2>1, InputsIs
<1>7. Inputs(kind, cs)[k] = Input(kind, cs[k], IF k = 1 THEN None ELSE cs[k - 1].close)
  BY <1>3, InputsIs
<1>8. Inputs(kind, zs)[u] = Input(kind, cs[k], cs[k - 1].close)
  BY <1>3, <1>4, <1>5, <1>6
<1> QED
  BY <1>2, <1>3, <1>5, <1>7, <1>8

\* What is taken of a sequence of candles.
LEMMA TakenAllIs ==
  ASSUME NEW cs \in Seq(Candle)
  PROVE  /\ TakenAll(cs) \in Seq(Taken) /\ Len(TakenAll(cs)) = Len(cs)
         /\ \A i \in 1..Len(cs) : TakenAll(cs)[i] = TakenOf(cs[i])
<1>1. Len(cs) \in Nat /\ DOMAIN cs = 1..Len(cs) /\ \A i \in 1..Len(cs) : cs[i] \in Candle
  BY ElementOfSeq, LenProperties
<1>2. PICK ts : ts = TakenAll(cs)
  OBVIOUS
<1>3. DOMAIN ts = 1..Len(cs) /\ \A i \in 1..Len(cs) : ts[i] = TakenOf(cs[i])
  BY <1>1, <1>2 DEF TakenAll
<1>4. \A i \in 1..Len(cs) : TakenOf(cs[i]) \in Taken
  BY <1>1, TakenIs
<1>5. ts = [i \in 1..Len(cs) |-> TakenOf(cs[i])]
  BY <1>1, <1>2 DEF TakenAll
<1>6. ts \in [1..Len(cs) -> Taken]
  BY <1>4, <1>5
<1>7. ts \in Seq(Taken) /\ Len(ts) = Len(cs)
  BY <1>1, <1>6
<1> QED
  BY <1>2, <1>3, <1>7

\* A window over them means what it means over the whole past.
LEMMA LastSuffice ==
  ASSUME NEW kind \in Vectorizable \cup {"taker"}, NEW cs \in Seq(Candle), NEW zs \in Seq(Candle),
         NEW w \in Nat \ {0}, NEW m \in 1..Len(cs), w < m, Ends(zs, cs, m, w)
  PROVE  Meaning(kind, w, SubSeq(zs, 1, w + 1)) = Meaning(kind, w, SubSeq(cs, 1, m))
<1>1. PICK n : n = w + 1
  OBVIOUS
<1>2. /\ Len(cs) \in Nat /\ m \in Nat /\ w <= m
      /\ n \in Nat /\ w <= n /\ Len(zs) = n /\ n \in 1..Len(zs)
  BY <1>1 DEF Ends
<1>3. Stored(1, n, w) = w /\ Stored(1, m, w) = w
  BY <1>1, <1>2 DEF Stored
<1>4. \A i \in 1..w : n - w + i = i + 1
  BY <1>1
<1>5. CASE kind \in Vectorizable
  <2>1. PICK xs, ys : xs = Inputs(kind, cs) /\ ys = Inputs(kind, zs)
    OBVIOUS
  <2>2. kind \in Measuring
    BY <1>5 DEF Measuring
  <2>3. xs \in Seq(Int) /\ Len(xs) = Len(cs)
    BY <2>1, <2>2, InputsIs
  <2>4. \A i \in 1..w : ys[i + 1] = xs[m - w + i]
    BY <2>1, <2>2, SameInputs
  <2>5. PICK d \in Seq(Int) : /\ Holds(d, xs, 1, m, w) /\ Len(d) = w
                              /\ \A i \in 1..w : d[i] = xs[m - w + i]
    <3>1. m \in 1..Len(xs)
      BY <2>3
    <3> QED
      BY <1>2, <2>3, <3>1, WindowExists
  <2>6. Holds(d, ys, 1, n, w)
    BY <1>3, <1>4, <2>4, <2>5 DEF Holds
  <2>7. /\ kind \in Rolling => Meaning(kind, w, SubSeq(cs, 1, m)) = SumOf(d)
        /\ kind \in Spread => Meaning(kind, w, SubSeq(cs, 1, m)) = Variance(d)
        /\ kind = "max" => Meaning(kind, w, SubSeq(cs, 1, m)) = Largest(d)
        /\ kind = "min" => Meaning(kind, w, SubSeq(cs, 1, m)) = Smallest(d)
    BY <1>2, <1>5, <2>1, <2>5, WindowMeaning
  <2>8. /\ kind \in Rolling => Meaning(kind, w, SubSeq(zs, 1, n)) = SumOf(d)
        /\ kind \in Spread => Meaning(kind, w, SubSeq(zs, 1, n)) = Variance(d)
        /\ kind = "max" => Meaning(kind, w, SubSeq(zs, 1, n)) = Largest(d)
        /\ kind = "min" => Meaning(kind, w, SubSeq(zs, 1, n)) = Smallest(d)
    BY <1>2, <1>5, <2>1, <2>6, WindowMeaning
  <2> QED
    BY <1>1, <1>5, <2>7, <2>8 DEF Vectorizable, Extreme
<1>6. CASE kind = "taker"
  <2>1. PICK xs, ys : xs = TakenAll(cs) /\ ys = TakenAll(zs)
    OBVIOUS
  <2>2. xs \in Seq(Taken) /\ Len(xs) = Len(cs) /\ \A i \in 1..Len(cs) : xs[i] = TakenOf(cs[i])
    BY <2>1, TakenAllIs
  <2>3. \A i \in 1..Len(zs) : ys[i] = TakenOf(zs[i])
    BY <2>1, TakenAllIs
  <2>4. ASSUME NEW i \in 1..w PROVE ys[i + 1] = xs[m - w + i]
    <3>1. PICK k : k = m - w + i
      OBVIOUS
    <3>2. k \in 1..Len(cs) /\ i + 1 \in 1..w + 1 /\ m - (w + 1) + (i + 1) = k
      BY <1>2, <3>1
    <3>3. zs[i + 1] = cs[k]
      BY <3>2 DEF Ends
    <3>4. i + 1 \in 1..Len(zs)
      BY <1>1, <1>2, <3>2
    <3> QED
      BY <2>2, <2>3, <3>1, <3>2, <3>3, <3>4
  <2>5. PICK d \in Seq(Taken) : /\ Holds(d, xs, 1, m, w) /\ Len(d) = w
                                /\ \A i \in 1..w : d[i] = xs[m - w + i]
    <3>1. m \in 1..Len(xs)
      BY <2>2
    <3> QED
      BY <1>2, <2>2, <3>1, WindowExists
  <2>6. Holds(d, ys, 1, n, w)
    BY <1>3, <1>4, <2>4, <2>5 DEF Holds
  <2>7. Meaning("taker", w, SubSeq(cs, 1, m)) =
          IF SumOf(Column(d, "missing")) > 0 \/ SumOf(Column(d, "volume")) <= 0 THEN None
          ELSE <<2 * SumOf(Column(d, "buy")) - SumOf(Column(d, "volume")),
                 SumOf(Column(d, "volume"))>>
    BY <1>2, <2>1, <2>5, TakerMeaning
  <2>8. Meaning("taker", w, SubSeq(zs, 1, n)) =
          IF SumOf(Column(d, "missing")) > 0 \/ SumOf(Column(d, "volume")) <= 0 THEN None
          ELSE <<2 * SumOf(Column(d, "buy")) - SumOf(Column(d, "volume")),
                 SumOf(Column(d, "volume"))>>
    BY <1>2, <2>1, <2>6, TakerMeaning
  <2> QED
    BY <1>1, <1>6, <2>7, <2>8
<1> QED
  BY <1>5, <1>6

\* A fold from nothing over the last w + 1 candles.
LEMMA FedWarms == LiveIsFed => WarmupSuffices
<1> SUFFICES ASSUME LiveIsFed, NEW s \in Traded, NEW j \in DOMAIN Plan[s],
                    Plan[s][j].kind \in Vectorizable \cup {"taker"},
                    Len(Past(s)) > Plan[s][j].window
             PROVE  Read(FoldLeft(LAMBDA ind, c : Update(ind, c, None), Fresh(Plan[s][j]),
                                  LastOf(Past(s), Plan[s][j].window + 1)), -1)
                      = Read(live.ind[s][j], -1)
  BY DEF WarmupSuffices
<1>1. PICK i, spec, cs, m, w : /\ i = live.ind[s][j] /\ spec = Plan[s][j] /\ cs = market[s]
                               /\ m = live.head[s] - 1 /\ w = spec.window
  OBVIOUS
<1>2. market \in Markets /\ Fed(live)
  BY DEF LiveIsFed, LoopShape
<1>3. cs \in Seq(Candle) /\ w \in Nat \ {0} /\ spec.kind \in Valued /\ Len(cs) \in Nat
  BY <1>1, <1>2, PlanIs DEF Valued
<1>4. m \in 0..Len(cs) /\ After(i, spec, cs, m)
  BY <1>1, <1>2, <1>3 DEF Fed
<1>5. Past(s) = SubSeq(cs, 1, m) /\ Len(SubSeq(cs, 1, m)) = m
  BY <1>1, <1>3, <1>4, FirstOf DEF Past
<1>6. m \in 1..Len(cs) /\ w < m /\ w + 1 \in Nat \ {0} /\ w + 1 <= m
  BY <1>1, <1>3, <1>4, <1>5
<1>7. PICK zs \in Seq(Candle) : /\ LastOf(SubSeq(cs, 1, m), w + 1) = zs
                                /\ Ends(zs, cs, m, w) /\ DOMAIN zs = 1..w + 1
  BY <1>3, <1>6, EndsExist
<1>8. LastOf(Past(s), w + 1) = zs /\ Len(zs) = w + 1
  BY <1>5, <1>7 DEF Ends
<1>9. PICK f : /\ Feeds(f, Fresh(spec), zs, w + 1)
               /\ FoldLeft(LAMBDA ind, c : Update(ind, c, None), Fresh(spec), zs) = f[w + 1]
  <2>1. PICK first, n : first = Fresh(spec) /\ n = w + 1
    OBVIOUS
  <2>2. n \in Nat /\ DOMAIN zs = 1..n
    BY <1>6, <1>7, <2>1
  <2>3. \E f : /\ Feeds(f, first, zs, n)
               /\ FoldLeft(LAMBDA ind, c : Update(ind, c, None), first, zs) = f[n]
    BY <2>2, UpdatesRun
  <2> QED
    BY <2>1, <2>3
<1>10. After(f[Len(zs)], spec, zs, Len(zs))
  BY <1>1, <1>3, <1>8, <1>9, RunAfter
<1>11. PICK e, n : e = f[w + 1] /\ n = w + 1
  OBVIOUS
<1>12. n \in 0..Len(zs) /\ After(e, spec, zs, n)
  BY <1>6, <1>8, <1>10, <1>11
<1>13. Read(e, -1) = Meaning(spec.kind, spec.window, SubSeq(zs, 1, n))
  BY <1>1, <1>3, <1>12, ReadAfter
<1>14. Read(i, -1) = Meaning(spec.kind, spec.window, SubSeq(cs, 1, m))
  BY <1>1, <1>3, <1>4, ReadAfter
<1>15. Meaning(spec.kind, w, SubSeq(zs, 1, w + 1)) = Meaning(spec.kind, w, SubSeq(cs, 1, m))
  <2>1. PICK kind : kind = spec.kind
    OBVIOUS
  <2>2. kind \in Vectorizable \cup {"taker"}
    BY <1>1, <2>1
  <2>3. Ends(zs, cs, m, w)
    BY <1>7
  <2> QED
    BY <1>3, <1>6, <2>1, <2>2, <2>3, LastSuffice
<1>16. FoldLeft(LAMBDA ind, c : Update(ind, c, None), Fresh(Plan[s][j]),
                LastOf(Past(s), Plan[s][j].window + 1)) = e
  BY <1>1, <1>8, <1>9, <1>11
<1> QED
  BY <1>1, <1>11, <1>13, <1>14, <1>15, <1>16

(***************************************************************************)
(* For any candles and any window, an indicator that was warmed up with    *)
(* the last window of candles and the one that closes now reads what one   *)
(* reads that has seen the whole past (warmup of the trading engine).      *)
(***************************************************************************)
THEOREM WarmupIsEnough == SpecLoops => []WarmupSuffices
<1>1. InitLoops => LiveIsFed
  BY InitShape, FreshFed DEF InitLoops, LiveIsFed, LoopShape, Fed
<1> QED
  BY <1>1, NextFed, FedWarms, PTL DEF SpecLoops

-----------------------------------------------------------------------------
(* The series of the backtest, computed over all candles in advance.       *)

\* What compute adds up for a sum: twice per candle, what leaves the window first.
Terms(xs, w) ==
  [j \in 1..2 * Len(xs) |->
     IF j % 2 = 0 THEN xs[j \div 2]
     ELSE LET i == (j + 1) \div 2 IN IF i > w THEN -xs[i - w] ELSE 0]

\* The two terms of each candle.
LEMMA TermsAre ==
  ASSUME NEW xs \in Seq(Int), NEW w \in Nat \ {0}
  PROVE  /\ \A j \in 1..2 * Len(xs) : Terms(xs, w)[j] \in Int
         /\ \A i \in 1..Len(xs) :
              /\ Terms(xs, w)[2 * i] = xs[i]
              /\ i > w => Terms(xs, w)[2 * i - 1] = -xs[i - w]
              /\ ~(i > w) => Terms(xs, w)[2 * i - 1] = 0
<1>1. PICK n : n = Len(xs)
  OBVIOUS
<1>2. n \in Nat /\ \A i \in 1..n : xs[i] \in Int
  BY <1>1, LenProperties, ElementOfSeq
<1>3. PICK y : y = Terms(xs, w)
  OBVIOUS
<1>4. ASSUME NEW i \in 1..n
      PROVE  /\ y[2 * i] = xs[i]
             /\ i > w => y[2 * i - 1] = -xs[i - w]
             /\ ~(i > w) => y[2 * i - 1] = 0
  <2>1. PICK a, b : a = 2 * i /\ b = 2 * i - 1
    OBVIOUS
  <2>2. a \in 1..2 * n /\ b \in 1..2 * n
    BY <1>2, <2>1
  <2>3. a % 2 = 0 /\ a \div 2 = i /\ b % 2 # 0 /\ (b + 1) \div 2 = i
    BY <1>2, <2>1
  <2>4. y[a] = xs[i]
    BY <1>1, <1>3, <2>2, <2>3 DEF Terms
  <2>5. y[b] = IF i > w THEN -xs[i - w] ELSE 0
    BY <1>1, <1>3, <2>2, <2>3 DEF Terms
  <2> QED
    BY <2>1, <2>4, <2>5
<1>5. ASSUME NEW j \in 1..2 * n PROVE y[j] \in Int
  <2>1. CASE j % 2 = 0
    <3>1. PICK i \in 1..n : j = 2 * i
      <4>1. j \div 2 \in 1..n /\ j = 2 * (j \div 2)
        BY <1>2, <2>1
      <4> QED
        BY <4>1
    <3> QED
      BY <1>2, <1>4, <3>1
  <2>2. CASE j % 2 # 0
    <3>1. PICK i \in 1..n : j = 2 * i - 1
      <4>1. (j + 1) \div 2 \in 1..n /\ j = 2 * ((j + 1) \div 2) - 1
        BY <1>2, <2>2
      <4> QED
        BY <4>1
    <3>2. CASE i > w
      <4>1. i - w \in 1..n
        BY <1>2, <3>2
      <4>2. -xs[i - w] \in Int
        BY <1>2, <4>1
      <4> QED
        BY <1>4, <3>1, <3>2, <4>2
    <3>3. CASE ~(i > w)
      BY <1>4, <3>1, <3>3
    <3> QED
      BY <3>2, <3>3
  <2> QED
    BY <2>1, <2>2
<1> QED
  BY <1>1, <1>3, <1>4, <1>5

\* The sums of compute are the running sums of these.
LEMMA SumsRun ==
  ASSUME NEW xs \in Seq(Int), NEW w \in Nat \ {0}
  PROVE  \E P : /\ Running(P, Terms(xs, w), 2 * Len(xs))
                /\ RollingSums(xs, w) = [i \in DOMAIN xs |-> IF i < w THEN NaN ELSE P[2 * i]]
<1>1. PICK n, y : n = 2 * Len(xs) /\ y = Terms(xs, w)
  OBVIOUS
<1>2. n \in Nat /\ \A j \in 1..n : y[j] \in Int
  <2>1. Len(xs) \in Nat
    BY LenProperties
  <2>2. \A j \in 1..2 * Len(xs) : Terms(xs, w)[j] \in Int
    BY TermsAre
  <2> QED
    BY <1>1, <2>1, <2>2
<1>3. PICK P : Running(P, y, n)
  BY <1>2, RunningExists
<1>4. P \in [0..n -> Int] /\ P[0] = 0 /\ \A i \in 1..n : P[i] = P[i - 1] + y[i]
  BY <1>3 DEF Running
<1> DEFINE By(h) == h = [j \in 0..n |-> IF j = 0 THEN 0 ELSE h[j - 1] + y[j]]
<1>5. By(P)
  <2>1. ASSUME NEW j \in 0..n PROVE P[j] = IF j = 0 THEN 0 ELSE P[j - 1] + y[j]
    <3>1. CASE j = 0
      BY <1>4, <3>1
    <3>2. CASE j # 0
      <4>1. j \in 1..n
        BY <1>2, <3>2
      <4>2. P[j] = P[j - 1] + y[j]
        BY <1>4, <4>1
      <4> QED
        BY <3>2, <4>2
    <3> QED
      BY <3>1, <3>2
  <2> DEFINE F == [j \in 0..n |-> IF j = 0 THEN 0 ELSE P[j - 1] + y[j]]
  <2>2. F = [j \in 0..n |-> F[j]] /\ \A j \in 0..n : F[j] = P[j]
    BY <2>1
  <2>3. P = [j \in 0..n |-> P[j]]
    BY <1>4
  <2>4. P = F
    <3> HIDE DEF F
    <3> QED
      BY <2>2, <2>3
  <2> QED
    BY <2>4
<1>6. PICK h : h = (CHOOSE k : By(k)) /\ By(h)
  <2> HIDE DEF By
  <2> QED
    BY <1>5
<1>7. h = [j \in 0..n |-> IF j = 0 THEN 0 ELSE h[j - 1] + y[j]]
  BY <1>6
<1>8. /\ h[0] = 0 /\ \A j \in 1..n : h[j] = h[j - 1] + y[j]
      /\ h = [j \in 0..n |-> h[j]]
  <2>1. 0 \in 0..n /\ \A j \in 1..n : j \in 0..n /\ j # 0
    BY <1>2
  <2>2. \A j \in 0..n : h[j] = IF j = 0 THEN 0 ELSE h[j - 1] + y[j]
    BY <1>7
  <2>3. DOMAIN h = 0..n /\ h = [j \in DOMAIN h |-> h[j]]
    BY <1>7
  <2> QED
    BY <2>1, <2>2, <2>3
<1>9. \A j \in 0..n : h[j] = P[j]
  <2> DEFINE S == {j \in 0..n : h[j] = P[j]}
  <2>1. 0 \in S
    BY <1>2, <1>4, <1>8
  <2>2. ASSUME NEW i \in 1..n, i - 1 \in S PROVE i \in S
    <3>1. i \in 0..n /\ i # 0 /\ h[i - 1] = P[i - 1]
      BY <1>2, <2>2
    <3>2. h[i] = h[i - 1] + y[i]
      BY <1>8
    <3>3. P[i] = P[i - 1] + y[i]
      BY <1>4
    <3> QED
      BY <3>1, <3>2, <3>3
  <2> HIDE DEF S
  <2>3. \A i \in 0..n : i \in S
    BY <1>2, <2>1, <2>2, UpTo
  <2> QED
    BY <2>3 DEF S
<1>10. h = P
  <2>1. h = [j \in 0..n |-> h[j]]
    BY <1>8
  <2>2. P = [j \in 0..n |-> P[j]]
    BY <1>4
  <2> QED
    BY <1>9, <2>1, <2>2
<1>11. RollingSums(xs, w) = [i \in DOMAIN xs |-> IF i < w THEN NaN ELSE (CHOOSE k : By(k))[2 * i]]
  BY <1>1 DEF RollingSums, Terms
<1>12. RollingSums(xs, w) = [i \in DOMAIN xs |-> IF i < w THEN NaN ELSE P[2 * i]]
  <2> HIDE DEF By
  <2> QED
    BY <1>6, <1>10, <1>11
<1> QED
  BY <1>1, <1>3, <1>12

\* Twice per candle, they are the sums of the windows.
Windows(P, xs, w, i) == \E d \in Seq(Int) : Holds(d, xs, 1, i, w) /\ P[2 * i] = SumOf(d)
\* The term that leaves makes room for the one that joins.
LEMMA SumsAreWindows ==
  ASSUME NEW xs \in Seq(Int), NEW w \in Nat \ {0}, NEW P, Running(P, Terms(xs, w), 2 * Len(xs))
  PROVE  \A i \in 0..Len(xs) : Windows(P, xs, w, i)
<1>1. PICK n, y : n = Len(xs) /\ y = Terms(xs, w)
  OBVIOUS
<1>2. n \in Nat /\ \A i \in 1..n : xs[i] \in Int
  BY <1>1, LenProperties, ElementOfSeq
<1>3. /\ \A i \in 1..n : /\ y[2 * i] = xs[i]
                         /\ i > w => y[2 * i - 1] = -xs[i - w]
                         /\ ~(i > w) => y[2 * i - 1] = 0
  BY <1>1, TermsAre
<1>4. P \in [0..2 * n -> Int] /\ P[0] = 0 /\ \A j \in 1..2 * n : P[j] = P[j - 1] + y[j]
  BY <1>1 DEF Running
<1> DEFINE S == {i \in 0..n : Windows(P, xs, w, i)}
<1>5. 0 \in S
  <2>1. <<>> \in Seq(Int) /\ Holds(<<>>, xs, 1, 0, w)
    BY DEF Holds, Stored
  <2>2. P[2 * 0] = SumOf(<<>>)
    BY <1>4, SumEmpty
  <2>3. \E d \in Seq(Int) : Holds(d, xs, 1, 0, w) /\ P[2 * 0] = SumOf(d)
    BY <2>1, <2>2
  <2>4. Windows(P, xs, w, 0)
    BY <2>3 DEF Windows
  <2> QED
    BY <1>2, <2>4
<1>6. ASSUME NEW i \in 1..n, i - 1 \in S PROVE i \in S
  <2>1. PICK d \in Seq(Int) : Holds(d, xs, 1, i - 1, w) /\ P[2 * (i - 1)] = SumOf(d)
    BY <1>6 DEF Windows
  <2>2. PICK x : x = xs[i]
    OBVIOUS
  <2>3. x \in Int /\ i \in 1..Len(xs) /\ i \in Nat \ {0} /\ i \in 0..n
    BY <1>1, <1>2, <2>2
  <2>4. PICK e : e = Push(d, x, w)
    OBVIOUS
  <2>5. e \in Seq(Int) /\ Holds(e, xs, 1, i, w) /\ Len(d) <= w
    BY <2>1, <2>2, <2>3, <2>4, WindowNext
  <2>6. PICK a, b, c \in Int : a = P[2 * (i - 1)] /\ b = y[2 * i - 1] /\ c = P[2 * i]
    <3>1. 2 * (i - 1) \in 0..2 * n /\ 2 * i \in 0..2 * n
      BY <1>2, <2>3
    <3>2. P[2 * (i - 1)] \in Int /\ P[2 * i] \in Int
      BY <1>4, <3>1
    <3>3. y[2 * i - 1] \in Int
      <4>1. 2 * i - 1 \in 1..2 * Len(xs)
        BY <1>1, <1>2, <2>3
      <4> QED
        BY <1>1, <4>1, TermsAre
    <3> QED
      BY <3>2, <3>3
  <2>7. c = a + b + x
    <3>1. 2 * i - 1 \in 1..2 * n /\ 2 * i \in 1..2 * n /\ 2 * i - 1 - 1 = 2 * (i - 1)
      BY <1>2, <2>3
    <3>2. P[2 * i - 1] = P[2 * i - 1 - 1] + y[2 * i - 1]
      BY <1>4, <3>1
    <3>3. P[2 * i - 1] = a + b
      BY <2>6, <3>1, <3>2
    <3>4. P[2 * i] = P[2 * i - 1] + y[2 * i]
      BY <1>4, <3>1
    <3>5. y[2 * i] = x
      BY <1>3, <2>2
    <3> QED
      BY <2>6, <3>3, <3>4, <3>5
  <2>8. c = SumOf(e)
    <3>1. a = SumOf(d)
      BY <2>1, <2>6
    <3>2. CASE i > w
      <4>1. Stored(1, i - 1, w) = w /\ i - 1 - w + 1 = i - w
        BY <2>3, <3>2 DEF Stored
      <4>2. Len(d) = w /\ d[1] = xs[i - w]
        BY <2>1, <4>1 DEF Holds
      <4>3. Head(d) = d[1]
        BY <4>2
      <4>4. i - w \in 1..n
        BY <1>2, <2>3, <3>2
      <4>5. PICK z \in Int : z = xs[i - w]
        BY <1>2, <4>4
      <4>6. b = -z
        BY <1>3, <2>6, <3>2, <4>5
      <4>7. SumOf(e) = SumOf(d) - Head(d) + x
        BY <2>3, <2>4, <2>5, <4>2, SumPush
      <4>8. SumOf(e) = a - z + x
        BY <3>1, <4>2, <4>3, <4>5, <4>7
      <4> QED
        BY <2>3, <2>7, <4>6, <4>8
    <3>3. CASE ~(i > w)
      <4>1. Stored(1, i - 1, w) = i - 1 /\ i - 1 # w
        BY <2>3, <3>3 DEF Stored
      <4>2. Len(d) # w
        BY <2>1, <4>1 DEF Holds
      <4>3. b = 0
        BY <1>3, <2>6, <3>3
      <4>4. SumOf(e) = SumOf(d) - 0 + x
        BY <2>3, <2>4, <2>5, <4>2, SumPush
      <4> QED
        BY <2>3, <2>7, <3>1, <4>3, <4>4
    <3> QED
      BY <3>2, <3>3
  <2>9. Windows(P, xs, w, i)
    BY <2>5, <2>6, <2>8 DEF Windows
  <2> QED
    BY <2>3, <2>9
<1> HIDE DEF S
<1>7. \A i \in 0..n : i \in S
  BY <1>2, <1>5, <1>6, UpTo
<1> QED
  BY <1>1, <1>7 DEF S

\* A window of a series is the last of the inputs up to its end.
LEMMA WindowIs ==
  ASSUME NEW xs \in Seq(Int), NEW w \in Nat \ {0}, NEW m \in 1..Len(xs), w <= m,
         NEW d \in Seq(Int), Holds(d, xs, 1, m, w)
  PROVE  SubSeq(xs, m - w + 1, m) = d
<1>1. m \in Nat /\ Stored(1, m, w) = w
  BY DEF Stored
<1>2. Len(d) = w /\ \A i \in 1..w : d[i] = xs[m - w + i]
  BY <1>1 DEF Holds
<1>3. PICK a : a = m - w + 1
  OBVIOUS
<1>4. a \in Int /\ 1 <= a /\ a <= m /\ m - a + 1 = w
  BY <1>1, <1>3
<1>5. PICK zs : zs = SubSeq(xs, a, m)
  OBVIOUS
<1>6. \A i \in a..m : xs[i] \in Int
  <2>1. \A i \in a..m : i \in 1..Len(xs)
    BY <1>1, <1>4
  <2>2. \A i \in 1..Len(xs) : xs[i] \in Int
    BY ElementOfSeq
  <2> QED
    BY <2>1, <2>2
<1>7. zs \in Seq(Int) /\ Len(zs) = w /\ \A i \in 1..w : zs[i] = xs[a + i - 1]
  BY <1>1, <1>4, <1>5, <1>6, SubSeqProperties
<1>8. ASSUME NEW i \in 1..w PROVE zs[i] = d[i]
  <2>1. a + i - 1 = m - w + i
    BY <1>1, <1>3, <1>4
  <2> QED
    BY <1>2, <1>7, <2>1
<1>9. zs = d
  BY <1>2, <1>7, <1>8, SeqEqual
<1> QED
  BY <1>3, <1>5, <1>9

\* A computed series has the meanings, and a mark where there is none yet.
LEMMA ComputeIs ==
  ASSUME NEW kind \in Vectorizable, NEW cs \in Seq(Candle), NEW w \in Nat \ {0},
         NEW m \in 1..Len(cs)
  PROVE  /\ m < w => Compute(kind, w, cs)[m] = NaN
         /\ ~(m < w) => Compute(kind, w, cs)[m] = Meaning(kind, w, SubSeq(cs, 1, m))
<1>1. PICK xs, f, v : /\ xs = Inputs(kind, cs) /\ f = Compute(kind, w, cs)
                      /\ v = Meaning(kind, w, SubSeq(cs, 1, m))
  OBVIOUS
<1>2. kind \in Measuring
  BY DEF Measuring
<1>3. xs \in Seq(Int) /\ Len(xs) = Len(cs) /\ DOMAIN xs = 1..Len(cs)
  BY <1>1, <1>2, InputsIs
<1>4. m \in DOMAIN xs /\ m \in 1..Len(xs) /\ m \in Nat /\ m \in 0..Len(xs)
  BY <1>3
<1>5. ASSUME NEW d \in Seq(Int), w <= m, Holds(d, xs, 1, m, w)
      PROVE  /\ kind \in Rolling => v = SumOf(d)
             /\ kind \in Spread => v = Variance(d)
             /\ kind = "max" => v = Largest(d)
             /\ kind = "min" => v = Smallest(d)
  BY <1>1, <1>5, WindowMeaning
<1>6. CASE kind \in Rolling
  <2>1. PICK P : /\ Running(P, Terms(xs, w), 2 * Len(xs))
                 /\ RollingSums(xs, w) = [i \in DOMAIN xs |-> IF i < w THEN NaN ELSE P[2 * i]]
    BY <1>3, SumsRun
  <2>2. f[m] = IF m < w THEN NaN ELSE P[2 * m]
    <3>1. f = RollingSums(xs, w)
      BY <1>1, <1>6 DEF Compute
    <3> QED
      BY <1>4, <2>1, <3>1
  <2>3. Windows(P, xs, w, m)
    BY <1>3, <1>4, <2>1, SumsAreWindows
  <2>4. PICK d \in Seq(Int) : Holds(d, xs, 1, m, w) /\ P[2 * m] = SumOf(d)
    BY <2>3 DEF Windows
  <2>5. ~(m < w) => v = SumOf(d)
    <3>1. ~(m < w) => w <= m
      BY <1>4
    <3> QED
      BY <1>5, <1>6, <2>4, <3>1
  <2> QED
    BY <1>1, <2>2, <2>4, <2>5
<1>7. CASE kind \notin Rolling
  <2>1. PICK z : z = SubSeq(xs, m - w + 1, m)
    OBVIOUS
  <2>2. f[m] = IF m < w THEN NaN ELSE OfWindow(kind, z)
    <3>1. f = Windowed(kind, xs, w)
      BY <1>1, <1>7 DEF Compute
    <3> QED
      BY <1>4, <2>1, <3>1 DEF Windowed
  <2>3. ASSUME ~(m < w) PROVE OfWindow(kind, z) = v
    <3>1. w <= m
      BY <1>4, <2>3
    <3>2. PICK d \in Seq(Int) : Holds(d, xs, 1, m, w)
      BY <1>3, <1>4, <3>1, WindowExists
    <3>3. z = d
      BY <1>3, <1>4, <2>1, <3>1, <3>2, WindowIs
    <3>4. kind \in Spread \/ kind = "max" \/ kind = "min"
      BY <1>7 DEF Vectorizable, Extreme
    <3>5. /\ kind \in Spread => OfWindow(kind, d) = Variance(d)
          /\ kind = "max" => OfWindow(kind, d) = Largest(d)
          /\ kind = "min" => OfWindow(kind, d) = Smallest(d)
      BY DEF OfWindow, Spread
    <3> QED
      BY <1>5, <3>1, <3>2, <3>3, <3>4, <3>5
  <2> QED
    BY <1>1, <2>2, <2>3
<1> QED
  BY <1>6, <1>7

-----------------------------------------------------------------------------
(* The ages of an event: the live loop asks for them in the order the      *)
(* streams come in, the backtest in the order the symbols are listed.      *)

\* The symbols whose age asks for their position.
Aged == {s \in Traded : \E j \in DOMAIN Plan[s] : Plan[s][j].kind = "age"}
SameOrder == Streamed = Listed \/ \A s, r \in Aged : s = r

\* A symbol that is known stays as it is.
LEMMA KnownStays ==
  ASSUME NEW a \in Account, NEW s \in Names
  PROVE  PositionFor(PositionFor(a, s), s) = PositionFor(a, s)
<1>1. PICK b : b = PositionFor(a, s)
  OBVIOUS
<1>2. b.keys = IF Contains(a.keys, s) THEN a.keys ELSE Append(a.keys, s)
  BY <1>1, PositionForKeeps
<1>3. Contains(b.keys, s)
  <2>1. a.keys \in Seq(Names)
    BY DEF Account
  <2>2. CASE Contains(a.keys, s)
    BY <1>2, <2>2
  <2>3. CASE ~Contains(a.keys, s)
    <3>1. b.keys = Append(a.keys, s)
      BY <1>2, <2>3
    <3>2. /\ Len(b.keys) = Len(a.keys) + 1 /\ b.keys[Len(a.keys) + 1] = s
          /\ Len(a.keys) + 1 \in 1..Len(b.keys)
      BY <2>1, <3>1
    <3> QED
      BY <3>2 DEF Contains
  <2> QED
    BY <2>2, <2>3
<1>4. PositionFor(b, s) = b
  BY <1>3 DEF PositionFor
<1> QED
  BY <1>1, <1>4

\* One symbol that asks becomes known, wherever it is in the order.
LEMMA TouchOne ==
  ASSUME NEW a \in Account, NEW s \in Names, NEW order \in Seq(Names),
         NEW asked, \A r : r \in asked <=> r = s, s \in ToSet(order)
  PROVE  TouchedBy(a, asked, order) = PositionFor(a, s)
<1>1. PICK n, b : n = Len(order) /\ b = PositionFor(a, s)
  OBVIOUS
<1>2. n \in Nat
  BY <1>1, LenProperties
<1>3. PICK f \in [0..Len(order) -> Account] : Touching(f, a, asked, order)
  BY TouchTrace
<1>4. /\ f[0] = a /\ TouchedBy(a, asked, order) = f[n]
      /\ \A i \in 1..n : f[i] = IF order[i] = s THEN PositionFor(f[i - 1], s) ELSE f[i - 1]
  BY <1>1, <1>3 DEF Touch, Touching
<1>5. PositionFor(b, s) = b /\ PositionFor(a, s) = b
  BY <1>1, KnownStays
<1> DEFINE Seen(i) == \E k \in 1..i : order[k] = s
           S == {i \in 0..n : f[i] = IF Seen(i) THEN b ELSE a}
<1>6. 0 \in S
  <2>1. ~Seen(0)
    OBVIOUS
  <2> HIDE DEF Seen
  <2> QED
    BY <1>2, <1>4, <2>1
<1>7. ASSUME NEW i \in 1..n, i - 1 \in S PROVE i \in S
  <2>1. Seen(i) <=> Seen(i - 1) \/ order[i] = s
    <3>1. \A k \in 1..i : k \in 1..i - 1 \/ k = i
      BY <1>2
    <3>2. i \in 1..i /\ 1..i - 1 \subseteq 1..i
      BY <1>2
    <3> QED
      BY <3>1, <3>2
  <2> HIDE DEF Seen
  <2>2. f[i - 1] = IF Seen(i - 1) THEN b ELSE a
    BY <1>7
  <2>3. f[i] = IF order[i] = s THEN PositionFor(f[i - 1], s) ELSE f[i - 1]
    BY <1>4
  <2>4. f[i] = IF Seen(i) THEN b ELSE a
    BY <1>5, <2>1, <2>2, <2>3
  <2>5. i \in 0..n
    BY <1>2
  <2> QED
    BY <2>4, <2>5
<1>8. n \in S
  <2> HIDE DEF S
  <2>1. \A i \in 0..n : i \in S
    BY <1>2, <1>6, <1>7, UpTo
  <2> QED
    BY <1>2, <2>1
<1>9. Seen(n)
  BY <1>1 DEF ToSet
<1>10. f[n] = b
  <2> HIDE DEF Seen
  <2> QED
    BY <1>8, <1>9
<1> QED
  BY <1>1, <1>4, <1>10

\* When no symbol asks, nothing changes.
LEMMA TouchNone ==
  ASSUME NEW a \in Account, NEW order \in Seq(Names), NEW asked, \A r \in Names : r \notin asked
  PROVE  TouchedBy(a, asked, order) = a
<1>1. PICK n : n = Len(order)
  OBVIOUS
<1>2. n \in Nat
  BY <1>1, LenProperties
<1>3. PICK f \in [0..Len(order) -> Account] : Touching(f, a, asked, order)
  BY TouchTrace
<1>4. f[0] = a /\ TouchedBy(a, asked, order) = f[n] /\ \A i \in 1..n : f[i] = f[i - 1]
  BY <1>1, <1>3 DEF Touch, Touching
<1> DEFINE S == {i \in 0..n : f[i] = a}
<1>5. 0 \in S /\ \A i \in 1..n : i - 1 \in S => i \in S
  BY <1>2, <1>4
<1>6. n \in S
  <2> HIDE DEF S
  <2>1. \A i \in 0..n : i \in S
    BY <1>2, <1>5, UpTo
  <2> QED
    BY <1>2, <2>1
<1> QED
  BY <1>4, <1>6

\* The order in which the ages of an event ask is not seen.
LEMMA SameShown ==
  ASSUME SameOrder, NEW a \in Account, NEW event
  PROVE  TouchedBy(a, Asked(event), Streamed) = TouchedBy(a, Asked(event), Listed)
<1>1. PICK asked : asked = Asked(event)
  OBVIOUS
<1>2. asked \subseteq Aged /\ asked \subseteq Traded
  BY <1>1 DEF Asked, Aged
<1>3. Streamed \in Seq(Names) /\ Listed \in Seq(Names)
  BY LoopAssumption
<1>4. CASE Streamed = Listed
  BY <1>4
<1>5. CASE asked = {}
  BY <1>1, <1>3, <1>5, TouchNone
<1>6. ASSUME NEW s \in asked, Streamed # Listed
      PROVE  TouchedBy(a, asked, Streamed) = TouchedBy(a, asked, Listed)
  <2>1. asked = {s}
    BY <1>2, <1>6 DEF SameOrder
  <2>2. s \in ToSet(Streamed)
    BY <1>2 DEF Traded
  <2>3. s \in Names
    BY <1>3, <2>2 DEF ToSet
  <2>4. s \in ToSet(Listed)
    BY <2>3 DEF Names
  <2>5. TouchedBy(a, asked, Streamed) = PositionFor(a, s)
    BY <1>3, <2>1, <2>2, <2>3, TouchOne
  <2>6. TouchedBy(a, asked, Listed) = PositionFor(a, s)
    BY <1>3, <2>1, <2>3, <2>4, TouchOne
  <2> QED
    BY <2>5, <2>6
<1> QED
  BY <1>1, <1>4, <1>5, <1>6

-----------------------------------------------------------------------------
(* An indicator that is fed computed values reads as one that is updated.  *)

\* An indicator that is given the computed values one by one.
Entries(vs) == {vs[i] : i \in DOMAIN vs}
Drawing(ind, spec, vs, m) ==
  /\ DOMAIN ind = Fields /\ ind.kind = spec.kind
  /\ ind.out \in Seq(Entries(vs)) /\ Holds(ind.out, vs, 1, m, History)

\* All that can be computed in advance keep the same number of outputs.
LEMMA VectorizableKept ==
  ASSUME NEW kind \in Vectorizable
  PROVE  /\ Kept(kind) = History /\ History \in Nat \ {0}
         /\ kind \in Valued \ {"pivot", "adx", "taker"}
<1>1. kind \notin {"age", "pivot", "adx", "taker"}
  BY DEF Vectorizable, Rolling, Spread, Extreme
<1>2. Kept(kind) = History
  BY <1>1 DEF Kept
<1> QED
  BY <1>1, <1>2, HistoryAssumption DEF Valued

\* One value more.
LEMMA DrawMore ==
  ASSUME NEW e, NEW spec, spec.kind \in Vectorizable, NEW vs, NEW n \in Nat, DOMAIN vs = 1..n,
         NEW m \in 1..n, Drawing(e, spec, vs, m - 1), NEW k, k = Sink(e, vs[m])
  PROVE  Drawing(k, spec, vs, m)
<1>1. /\ DOMAIN e = Fields /\ e.kind = spec.kind
      /\ e.out \in Seq(Entries(vs)) /\ Holds(e.out, vs, 1, m - 1, History)
  BY DEF Drawing
<1>2. PICK v, o, x : v = vs[m] /\ o = e.out /\ x = k.out
  OBVIOUS
<1>3. v \in Entries(vs) /\ m \in Nat \ {0} /\ 1 \in Nat \ {0} /\ 1 <= m
  BY <1>2 DEF Entries
<1>4. Kept(e.kind) = History /\ History \in Nat \ {0}
  BY <1>1, VectorizableKept
<1>5. k = Emit(e, v)
  BY <1>2 DEF Sink
<1>6. DOMAIN k = Fields /\ k.out = Push(e.out, v, Kept(e.kind)) /\ k.kind = e.kind
  BY <1>1, <1>5, EmitIs
<1>7. x = Push(o, v, History)
  BY <1>2, <1>4, <1>6
<1>8. o \in Seq(Entries(vs)) /\ Holds(o, vs, 1, m - 1, History)
  BY <1>1, <1>2
<1>9. x \in Seq(Entries(vs)) /\ Holds(x, vs, 1, m, History)
  BY <1>2, <1>3, <1>4, <1>7, <1>8, PushHolds
<1> QED
  BY <1>1, <1>2, <1>6, <1>9 DEF Drawing

\* It is read as one that is updated is, at every depth.
LEMMA SameRead ==
  ASSUME NEW ind, NEW e, NEW spec, spec.kind \in Vectorizable, spec.window \in Nat \ {0},
         NEW cs \in Seq(Candle), NEW m \in 0..Len(cs), After(ind, spec, cs, m),
         NEW vs, vs = Compute(spec.kind, spec.window, cs), Drawing(e, spec, vs, m),
         NEW d \in Nat \ {0}
  PROVE  Read(ind, -d) = Read(e, -d)
<1> SUFFICES Reading(ind, d) = Reading(e, d)
  BY DEF Reading
<1>1. PICK kind, w : kind = spec.kind /\ w = spec.window
  OBVIOUS
<1>2. kind \in Vectorizable /\ kind \in Valued /\ kind # "pivot" /\ kind # "adx" /\ kind # "taker"
      /\ w \in Nat \ {0} /\ m \in Nat /\ Kept(kind) = History /\ History \in Nat \ {0}
  BY <1>1, VectorizableKept
<1>3. PICK us, lo : us = Values(kind, w, cs) /\ lo = Ready(kind, w)
  OBVIOUS
<1>4. /\ ind.kind = kind /\ Holds(ind.out, us, lo, m, Kept(ind.kind))
      /\ e.kind = kind /\ Holds(e.out, vs, 1, m, Kept(e.kind))
  BY <1>1, <1>2, <1>3 DEF After, Gives, Drawing
<1>5. lo \in Nat \ {0} /\ lo <= w /\ (lo = w \/ lo = 1)
  BY <1>2, <1>3 DEF Ready
<1>6. PICK p \in Int : p = m - d + 1
  BY <1>2
<1>7. Reading(ind, d) = Shown(us, lo, m, History, d)
  <2>1. Kept(ind.kind) = History
    BY <1>2, <1>4
  <2>2. /\ Kept(ind.kind) \in Nat \ {0} /\ lo \in Nat \ {0} /\ m \in Nat
        /\ Holds(ind.out, us, lo, m, Kept(ind.kind))
    BY <1>2, <1>4, <1>5, <2>1
  <2>3. Reading(ind, d) = Shown(us, lo, m, Kept(ind.kind), d)
    BY <2>2, ReadIs, ZenonT(60)
  <2> QED
    BY <2>1, <2>3
<1>8. Reading(e, d) = Shown(vs, 1, m, History, d)
  <2>1. Kept(e.kind) = History
    BY <1>2, <1>4
  <2>2. PICK one \in Nat \ {0} : one = 1
    OBVIOUS
  <2>3. /\ Kept(e.kind) \in Nat \ {0} /\ one \in Nat \ {0} /\ m \in Nat
        /\ Holds(e.out, vs, one, m, Kept(e.kind))
    BY <1>2, <1>4, <2>1, <2>2
  <2>4. Reading(e, d) = Shown(vs, one, m, Kept(e.kind), d)
    BY <2>3, ReadIs, ZenonT(60)
  <2> QED
    BY <2>1, <2>2, <2>4
<1>9. CASE d > History
  BY <1>7, <1>8, <1>9 DEF Shown
<1>10. CASE ~(d > History) /\ p < 1
  <2>1. m - d + 1 < lo /\ m - d + 1 < 1
    BY <1>5, <1>6, <1>10
  <2> QED
    BY <1>7, <1>8, <1>10, <2>1 DEF Shown
<1>11. CASE ~(d > History) /\ ~(p < 1)
  <2>1. p \in 1..Len(cs)
    BY <1>6, <1>11, LenProperties
  <2>2. PICK v : v = Meaning(kind, w, SubSeq(cs, 1, p))
    OBVIOUS
  <2>3. us[p] = v
    BY <1>3, <2>1, <2>2, ValueAt
  <2>4. /\ p < w => vs[p] = NaN
        /\ ~(p < w) => vs[p] = v
    <3>1. /\ p < w => Compute(kind, w, cs)[p] = NaN
          /\ ~(p < w) => Compute(kind, w, cs)[p] = Meaning(kind, w, SubSeq(cs, 1, p))
      BY <1>2, <2>1, ComputeIs
    <3> QED
      BY <1>1, <2>2, <3>1
  <2>5. p < w => v = None
    BY <1>2, <2>1, <2>2, WindowMeaning
  <2>6. /\ Reading(ind, d) = IF p < lo THEN None ELSE IF us[p] = NaN THEN None ELSE us[p]
        /\ Reading(e, d) = IF vs[p] = NaN THEN None ELSE vs[p]
    BY <1>6, <1>7, <1>8, <1>11 DEF Shown
  <2>7. CASE p < w
    BY <2>3, <2>4, <2>5, <2>6, <2>7
  <2>8. CASE ~(p < w)
    <3>1. ~(p < lo)
      BY <1>2, <1>5, <2>8
    <3> QED
      BY <2>3, <2>4, <2>6, <2>8, <3>1
  <2> QED
    BY <2>7, <2>8
<1> QED
  BY <1>9, <1>10, <1>11

\* What the strategy sees, when it reads the same everywhere.
LEMMA SameView ==
  ASSUME NEW one, NEW two, NEW a, NEW t,
         \A s \in Traded : /\ DOMAIN one[s] = DOMAIN two[s]
                           /\ \A j \in DOMAIN one[s] : \A d \in 1..History + 1 :
                                Read(one[s][j], -d) = Read(two[s][j], -d)
  PROVE  View(one, a, t) = View(two, a, t)
<1> DEFINE Deep(ind) == [d \in 1..History + 1 |-> Read(ind, -d)]
           Of(inds) == [j \in DOMAIN inds |-> Deep(inds[j])]
           All(inds) == [s \in Traded |-> Of(inds[s])]
<1>1. ASSUME NEW s \in Traded, NEW j \in DOMAIN one[s] PROVE Deep(one[s][j]) = Deep(two[s][j])
  <2>1. \A d \in 1..History + 1 : Read(one[s][j], -d) = Read(two[s][j], -d)
    OBVIOUS
  <2> QED
    BY <2>1
<1>2. ASSUME NEW s \in Traded PROVE Of(one[s]) = Of(two[s])
  <2>1. DOMAIN one[s] = DOMAIN two[s] /\ \A j \in DOMAIN one[s] : Deep(one[s][j]) = Deep(two[s][j])
    BY <1>1
  <2> HIDE DEF Deep
  <2> QED
    BY <2>1
<1>3. All(one) = All(two)
  <2> HIDE DEF Of
  <2> QED
    BY <1>2
<1>4. View(one, a, t) = [time |-> t, reads |-> All(one), pos |-> a.pos, stop |-> a.stop,
                         equity |-> Equity(a)]
  BY DEF View
<1>5. View(two, a, t) = [time |-> t, reads |-> All(two), pos |-> a.pos, stop |-> a.stop,
                         equity |-> Equity(a)]
  BY DEF View
<1> QED
  <2> HIDE DEF All
  <2> QED
    BY <1>3, <1>4, <1>5

-----------------------------------------------------------------------------
(* Both loops, event by event.                                             *)

\* The loop of the backtest is where the live loop is.
Parts == {"head", "ind", "acct", "view", "drawn", "series"}
Beside(ind, e, s, j, m) ==
  IF Precomputed(s, j) THEN Drawing(e, Plan[s][j], Series[s][j], m) ELSE e = ind
Agree(l, b) ==
  /\ DOMAIN b = Parts
  /\ b.head = l.head /\ b.acct = l.acct /\ b.view = l.view /\ b.series = Series
  /\ DOMAIN b.ind = Traded
  /\ \A s \in Traded :
       /\ DOMAIN b.ind[s] = DOMAIN Plan[s]
       /\ b.drawn[s] = l.head[s] - 1
       /\ \A j \in DOMAIN Plan[s] : Beside(l.ind[s][j], b.ind[s][j], s, j, l.head[s] - 1)

\* A series that was computed.
LEMMA SeriesIs ==
  ASSUME market \in Markets, NEW s \in Traded, NEW j \in DOMAIN Plan[s], Precomputed(s, j)
  PROVE  /\ Plan[s][j].kind \in Vectorizable
         /\ Series[s][j] = Compute(Plan[s][j].kind, Plan[s][j].window, market[s])
         /\ DOMAIN Series[s][j] = 1..Len(market[s])
<1>1. PICK kind, w, cs : kind = Plan[s][j].kind /\ w = Plan[s][j].window /\ cs = market[s]
  OBVIOUS
<1>2. kind \in Vectorizable
  BY <1>1 DEF Precomputed
<1>3. Series[s][j] = Compute(kind, w, cs)
  BY <1>1 DEF Series
<1>4. cs \in Seq(Candle)
  BY <1>1, PlanIs
<1>5. PICK xs : xs = Inputs(kind, cs)
  OBVIOUS
<1>6. DOMAIN xs = 1..Len(cs)
  BY <1>2, <1>4, <1>5, InputsIs DEF Measuring
<1>7. DOMAIN Compute(kind, w, cs) = DOMAIN xs
  <2>1. Compute(kind, w, cs) =
          IF kind \in Rolling THEN RollingSums(xs, w) ELSE Windowed(kind, xs, w)
    BY <1>5 DEF Compute
  <2>2. DOMAIN RollingSums(xs, w) = DOMAIN xs
    BY DEF RollingSums
  <2>3. DOMAIN Windowed(kind, xs, w) = DOMAIN xs
    BY DEF Windowed
  <2> QED
    BY <2>1, <2>2, <2>3
<1> QED
  BY <1>1, <1>2, <1>3, <1>6, <1>7

\* What the two loops make of an indicator whose symbol has a candle.
LEMMA BesideNext ==
  ASSUME market \in Markets, NEW s \in Traded, NEW j \in DOMAIN Plan[s],
         NEW m \in 1..Len(market[s]), NEW ind, NEW e, Beside(ind, e, s, j, m - 1), NEW p,
         NEW n, n = Update(ind, market[s][m], p),
         NEW k, k = IF Precomputed(s, j) THEN Sink(e, Series[s][j][m])
                    ELSE Update(e, market[s][m], p)
  PROVE  Beside(n, k, s, j, m)
<1>1. CASE Precomputed(s, j)
  <2>1. PICK spec, vs, len : spec = Plan[s][j] /\ vs = Series[s][j] /\ len = Len(market[s])
    OBVIOUS
  <2>2. spec.kind \in Vectorizable /\ DOMAIN vs = 1..len /\ len \in Nat /\ m \in 1..len
    BY <1>1, <2>1, SeriesIs, PlanIs
  <2>3. Drawing(e, spec, vs, m - 1)
    BY <1>1, <2>1 DEF Beside
  <2>4. k = Sink(e, vs[m])
    BY <1>1, <2>1
  <2>5. Drawing(k, spec, vs, m)
    BY <2>2, <2>3, <2>4, DrawMore
  <2> QED
    BY <1>1, <2>1, <2>5 DEF Beside
<1>2. CASE ~Precomputed(s, j)
  BY <1>2 DEF Beside
<1> QED
  BY <1>1, <1>2

\* A read of an indicator is the same in both.
LEMMA BesideRead ==
  ASSUME market \in Markets, NEW s \in Traded, NEW j \in DOMAIN Plan[s],
         NEW m \in 0..Len(market[s]), NEW ind, NEW e, Beside(ind, e, s, j, m),
         Plan[s][j].kind \in Valued => After(ind, Plan[s][j], market[s], m), NEW d \in Nat \ {0}
  PROVE  Read(ind, -d) = Read(e, -d)
<1>1. CASE Precomputed(s, j)
  <2>1. PICK spec, vs, cs : spec = Plan[s][j] /\ vs = Series[s][j] /\ cs = market[s]
    OBVIOUS
  <2>2. /\ spec.kind \in Vectorizable /\ vs = Compute(spec.kind, spec.window, cs)
        /\ cs \in Seq(Candle) /\ spec.window \in Nat \ {0} /\ m \in 0..Len(cs)
    BY <1>1, <2>1, SeriesIs, PlanIs
  <2>3. Drawing(e, spec, vs, m)
    BY <1>1, <2>1 DEF Beside
  <2>4. After(ind, spec, cs, m)
    BY <2>1, <2>2 DEF Valued
  <2> QED
    BY <2>2, <2>3, <2>4, SameRead
<1>2. CASE ~Precomputed(s, j)
  BY <1>2 DEF Beside
<1> QED
  BY <1>1, <1>2

\* One event of both loops.
LEMMA LoopsStep ==
  ASSUME SameOrder, market \in Markets, NEW l, l.head \in Cursors, l.acct \in Account,
         Waiting(l.head) # {}, Fed(l), NEW b, Agree(l, b), NEW actions,
         NEW n, n = LiveLoop(l, actions), NEW k, k = BackLoop(b, actions)
  PROVE  Agree(n, k)
<1>1. PICK h, event, t, g : h = l.head /\ event = Event(h) /\ t = NextTime(h) /\ g = Begun(l)
  OBVIOUS
<1>2. /\ DOMAIN event = Batch(h) /\ t \in Nat /\ \A s \in Batch(h) : event[s] \in Candle
      /\ \A s \in Batch(h) : event[s] = market[s][h[s]] /\ h[s] <= Len(market[s])
  BY <1>1, NextEvent
<1>3. g = BeginEvent(l.acct, t, event) /\ g \in Account
  <2>1. g = BeginEvent(l.acct, t, event)
    BY <1>1 DEF Begun
  <2>2. \A s \in DOMAIN event : event[s] \in Candle
    BY <1>2
  <2>3. t \in Int
    BY <1>2
  <2> QED
    BY <2>1, <2>2, <2>3, BeginEventIs
<1>4. PICK x : x = TouchedBy(g, Asked(event), Streamed)
  OBVIOUS
<1>5. x = TouchedBy(g, Asked(event), Listed)
  BY <1>3, <1>4, SameShown
<1>6. /\ DOMAIN b = Parts /\ b.head = h /\ b.acct = l.acct /\ b.series = Series
      /\ Begun(b) = g
  BY <1>1 DEF Agree, Begun
<1>7. PICK drawn : drawn = Drawn(b.drawn, event)
  OBVIOUS
<1>8. /\ n.head = Advanced(h)
      /\ n.ind = [s \in Traded |-> IF s \notin DOMAIN event THEN l.ind[s]
                    ELSE [j \in DOMAIN l.ind[s] |-> Update(l.ind[s][j], event[s], g.pos[s])]]
      /\ n.acct = SubmitAll(x, t, actions) /\ n.view = View(n.ind, x, t)
  BY <1>1, <1>4 DEF LiveLoop
<1>9. /\ DOMAIN k = Parts /\ k.head = Advanced(h) /\ k.series = Series /\ k.drawn = drawn
      /\ k.ind = [s \in Traded |-> IF s \notin DOMAIN event THEN b.ind[s]
                    ELSE [j \in DOMAIN b.ind[s] |->
                            IF Precomputed(s, j) THEN Sink(b.ind[s][j], Series[s][j][drawn[s]])
                            ELSE Update(b.ind[s][j], event[s], g.pos[s])]]
      /\ k.acct = SubmitAll(x, t, actions) /\ k.view = View(k.ind, x, t)
  BY <1>1, <1>5, <1>6, <1>7 DEF BackLoop, Parts
<1>10. Fed(n)
  BY LiveFed
<1>11. ASSUME NEW s \in Traded
       PROVE  /\ DOMAIN k.ind[s] = DOMAIN Plan[s]
              /\ k.drawn[s] = n.head[s] - 1
              /\ \A j \in DOMAIN Plan[s] : Beside(n.ind[s][j], k.ind[s][j], s, j, n.head[s] - 1)
  <2>1. PICK m, cs : m = h[s] /\ cs = market[s]
    OBVIOUS
  <2>2. s \in Names /\ cs \in Seq(Candle) /\ Len(cs) \in Nat
    BY <2>1, PlanIs
  <2>3. m \in Nat \ {0}
    BY <1>1, <2>1, <2>2 DEF Cursors
  <2>4. /\ DOMAIN l.ind[s] = DOMAIN Plan[s] /\ DOMAIN b.ind[s] = DOMAIN Plan[s]
        /\ b.drawn[s] = m - 1
        /\ \A j \in DOMAIN Plan[s] : Beside(l.ind[s][j], b.ind[s][j], s, j, m - 1)
    BY <1>1, <2>1 DEF Agree, Fed
  <2>5. CASE s \in Batch(h)
    <3>1. m \in 1..Len(cs) /\ event[s] = cs[m]
      BY <1>2, <2>1, <2>2, <2>3, <2>5
    <3>2. n.head[s] = m + 1
      BY <1>8, <2>1, <2>2, <2>5 DEF Advanced
    <3>3. n.head[s] - 1 = m
      BY <2>3, <3>2
    <3>4. drawn[s] = b.drawn[s] + 1
      BY <1>2, <1>7, <2>5 DEF Drawn
    <3>5. drawn[s] = m
      BY <2>3, <2>4, <3>4
    <3>6. n.ind[s] = [j \in DOMAIN Plan[s] |-> Update(l.ind[s][j], cs[m], g.pos[s])]
      BY <1>2, <1>8, <2>4, <2>5, <3>1
    <3>7. k.ind[s] = [j \in DOMAIN Plan[s] |->
                        IF Precomputed(s, j) THEN Sink(b.ind[s][j], Series[s][j][m])
                        ELSE Update(b.ind[s][j], cs[m], g.pos[s])]
      BY <1>2, <1>9, <2>4, <2>5, <3>1, <3>5
    <3>8. ASSUME NEW j \in DOMAIN Plan[s]
          PROVE  Beside(n.ind[s][j], k.ind[s][j], s, j, m)
      <4>1. PICK ind, e, p : ind = l.ind[s][j] /\ e = b.ind[s][j] /\ p = g.pos[s]
        OBVIOUS
      <4>2. PICK i2, e2 : i2 = n.ind[s][j] /\ e2 = k.ind[s][j]
        OBVIOUS
      <4>3. Beside(ind, e, s, j, m - 1)
        BY <2>4, <4>1
      <4>4. i2 = Update(ind, market[s][m], p)
        BY <2>1, <3>6, <4>1, <4>2
      <4>5. e2 = IF Precomputed(s, j) THEN Sink(e, Series[s][j][m]) ELSE Update(e, market[s][m], p)
        BY <2>1, <3>7, <4>1, <4>2
      <4>6. m \in 1..Len(market[s])
        BY <2>1, <3>1
      <4>7. Beside(i2, e2, s, j, m)
        BY <4>3, <4>4, <4>5, <4>6, BesideNext
      <4> QED
        BY <4>2, <4>7
    <3>9. DOMAIN k.ind[s] = DOMAIN Plan[s]
      BY <3>7
    <3> QED
      BY <1>9, <3>3, <3>5, <3>8, <3>9
  <2>6. CASE s \notin Batch(h)
    <3>1. n.head[s] = m
      BY <1>8, <2>1, <2>2, <2>6 DEF Advanced
    <3>2. n.ind[s] = l.ind[s] /\ k.ind[s] = b.ind[s]
      BY <1>2, <1>8, <1>9, <2>6
    <3>3. drawn[s] = b.drawn[s]
      BY <1>2, <1>7, <2>6 DEF Drawn
    <3> QED
      BY <1>9, <2>4, <3>1, <3>2, <3>3
  <2> QED
    BY <2>5, <2>6
<1>12. DOMAIN k.ind = Traded
  BY <1>9
<1>13. k.view = n.view
  <2>1. PICK one, two : one = n.ind /\ two = k.ind
    OBVIOUS
  <2>2. ASSUME NEW s \in Traded
        PROVE  /\ DOMAIN one[s] = DOMAIN two[s]
               /\ \A j \in DOMAIN one[s] : \A d \in 1..History + 1 :
                    Read(one[s][j], -d) = Read(two[s][j], -d)
    <3>1. PICK m : m = n.head[s] - 1
      OBVIOUS
    <3>2. /\ DOMAIN one[s] = DOMAIN Plan[s] /\ m \in 0..Len(market[s])
          /\ \A j \in DOMAIN Plan[s] : Plan[s][j].kind \in Valued =>
               After(one[s][j], Plan[s][j], market[s], m)
      BY <1>10, <2>1, <3>1 DEF Fed
    <3>3. /\ DOMAIN two[s] = DOMAIN Plan[s]
          /\ \A j \in DOMAIN Plan[s] : Beside(one[s][j], two[s][j], s, j, m)
      BY <1>11, <2>1, <3>1
    <3>4. ASSUME NEW j \in DOMAIN Plan[s], NEW d \in 1..History + 1
          PROVE  Read(one[s][j], -d) = Read(two[s][j], -d)
      <4>1. PICK ind, e : ind = one[s][j] /\ e = two[s][j]
        OBVIOUS
      <4>2. Plan[s][j].kind \in Valued => After(ind, Plan[s][j], market[s], m)
        BY <3>2, <4>1
      <4>3. Beside(ind, e, s, j, m) /\ d \in Nat \ {0}
        BY <3>3, <4>1
      <4>4. Read(ind, -d) = Read(e, -d)
        BY <3>2, <4>2, <4>3, BesideRead
      <4> QED
        BY <4>1, <4>4
    <3> QED
      BY <3>2, <3>3, <3>4
  <2>3. View(one, x, t) = View(two, x, t)
    BY <2>2, SameView
  <2> QED
    BY <1>8, <1>9, <2>1, <2>3
<1>14. k.head = n.head /\ k.acct = n.acct /\ k.series = Series
  BY <1>8, <1>9
<1> QED
  BY <1>9, <1>11, <1>12, <1>13, <1>14 DEF Agree

\* The backtest starts as the live loop does, with nothing drawn yet.
LEMMA NewBackIs ==
  /\ DOMAIN NewBack = Parts
  /\ NewBack.head = NewLoop.head /\ NewBack.ind = NewLoop.ind /\ NewBack.acct = NewLoop.acct
  /\ NewBack.view = NewLoop.view /\ NewBack.drawn = [s \in Traded |-> 0]
BY DEF NewBack, NewLoop, Parts

\* Both loops before the first event, with the series computed.
LEMMA StartAgrees ==
  ASSUME market \in Markets, NEW l, l = NewLoop, NEW b, b = [NewBack EXCEPT !.series = Series]
  PROVE  Agree(l, b)
<1>1. /\ l.head = [s \in Names |-> 1] /\ l.ind = FreshIndicators
  BY DEF NewLoop
<1>2. /\ DOMAIN b = Parts /\ b.head = l.head /\ b.ind = l.ind /\ b.acct = l.acct
      /\ b.view = l.view /\ b.series = Series /\ b.drawn = [s \in Traded |-> 0]
  BY NewBackIs DEF Parts
<1>3. DOMAIN b.ind = Traded
  BY <1>1, <1>2 DEF FreshIndicators
<1>4. ASSUME NEW s \in Traded
      PROVE  /\ DOMAIN b.ind[s] = DOMAIN Plan[s]
             /\ b.drawn[s] = l.head[s] - 1
             /\ \A j \in DOMAIN Plan[s] : Beside(l.ind[s][j], b.ind[s][j], s, j, l.head[s] - 1)
  <2>1. s \in Names
    BY PlanIs
  <2>2. l.head[s] - 1 = 0 /\ b.drawn[s] = 0
    BY <1>1, <1>2, <2>1
  <2>3. b.ind[s] = [j \in DOMAIN Plan[s] |-> Fresh(Plan[s][j])] /\ l.ind[s] = b.ind[s]
    BY <1>1, <1>2 DEF FreshIndicators
  <2>4. ASSUME NEW j \in DOMAIN Plan[s]
        PROVE  Beside(l.ind[s][j], b.ind[s][j], s, j, 0)
    <3>1. PICK e, spec, vs : e = b.ind[s][j] /\ spec = Plan[s][j] /\ vs = Series[s][j]
      OBVIOUS
    <3>2. e = Fresh(spec) /\ l.ind[s][j] = e
      BY <2>3, <3>1
    <3>3. DOMAIN e = Fields /\ e.kind = spec.kind /\ e.out = <<>>
      BY <3>2 DEF Fresh, Fields
    <3>4. e.out \in Seq(Entries(vs)) /\ Holds(e.out, vs, 1, 0, History)
      BY <3>3 DEF Holds, Stored
    <3>5. Drawing(e, spec, vs, 0)
      BY <3>3, <3>4 DEF Drawing
    <3> QED
      BY <3>1, <3>2, <3>5 DEF Beside
  <2> QED
    BY <2>2, <2>3, <2>4
<1> QED
  BY <1>2, <1>3, <1>4 DEF Agree

\* After an event of the live loop the backtest is not where it is.
LEMMA LiveMoves ==
  ASSUME NEW h \in Cursors, market \in Markets, Waiting(h) # {}
  PROVE  Advanced(h) # h
<1>1. PICK s \in Batch(h) : s \in Names
  BY NextEvent
<1>2. Advanced(h)[s] = h[s] + 1
  BY <1>1 DEF Advanced
<1>3. h[s] + 1 # h[s]
  BY <1>1 DEF Cursors
<1> QED
  BY <1>2, <1>3

\* While the candles are the same, so are the events.
LEMMA TimeStays ==
  ASSUME NEW h \in Cursors, market \in Markets, Waiting(h) # {}, market' = market
  PROVE  Waiting(h)' = Waiting(h) /\ NextTime(h)' = NextTime(h)
<1>1. Waiting(h)' = Waiting(h)
  BY DEF Waiting
<1>2. PICK W : W = Waiting(h)
  OBVIOUS
<1>3. W # {} /\ \A s \in W : market[s][h[s]].end \in Nat
  BY <1>2, NextCandles
<1> DEFINE T == {market[s][h[s]].end : s \in W}
<1>4. PICK x \in T : \A u \in T : x <= u
  <2>1. T \in SUBSET Nat /\ T # {}
    BY <1>3
  <2> HIDE DEF T
  <2> QED
    BY <2>1, LeastOf
<1>5. NextTime(h) = CHOOSE t \in {market[s][h[s]].end : s \in W} :
                      \A s \in W : t <= market[s][h[s]].end
  BY <1>2 DEF NextTime
<1>6. NextTime(h)' = CHOOSE t \in {market'[s][h[s]].end : s \in W} :
                       \A s \in W : t <= market'[s][h[s]].end
  BY <1>1, <1>2 DEF NextTime
<1>7. PICK t, u : t = NextTime(h) /\ u = NextTime(h)'
  OBVIOUS
<1>8. t \in T /\ \A s \in W : t <= market[s][h[s]].end
  BY <1>4, <1>5, <1>7
<1>9. u \in T /\ \A s \in W : u <= market[s][h[s]].end
  BY <1>4, <1>6, <1>7
<1>10. t <= u /\ u <= t /\ t \in Nat /\ u \in Nat
  BY <1>3, <1>8, <1>9
<1> QED
  BY <1>1, <1>7, <1>10

\* And so is an event, and the cursors after it.
LEMMA EventStays ==
  ASSUME NEW h \in Cursors, market \in Markets, Waiting(h) # {}, market' = market
  PROVE  /\ Event(h)' = Event(h) /\ Advanced(h)' = Advanced(h)
<1>1. PICK W, t : W = Waiting(h) /\ t = NextTime(h)
  OBVIOUS
<1>2. Waiting(h)' = W /\ NextTime(h)' = t
  BY <1>1, TimeStays
<1>3. PICK B : B = Batch(h)
  OBVIOUS
<1>4. Batch(h)' = B
  BY <1>1, <1>2, <1>3 DEF Batch
<1>5. Event(h) = [s \in B |-> market[s][h[s]]] /\ Event(h)' = [s \in B |-> market'[s][h[s]]]
  BY <1>3, <1>4 DEF Event
<1>6. Event(h)' = Event(h)
  BY <1>5
<1>7. Advanced(h)' = Advanced(h)
  BY <1>3, <1>4 DEF Advanced
<1> QED
  BY <1>6, <1>7

\* And so is what was computed.
LEMMA SeriesStays ==
  ASSUME market' = market
  PROVE  /\ \A s, j : Precomputed(s, j)' <=> Precomputed(s, j)
         /\ Series' = Series
<1>1. \A s, j : Precomputed(s, j)' <=> Precomputed(s, j)
  BY DEF Precomputed
<1> DEFINE Item(s, j) == IF Precomputed(s, j)
                         THEN Compute(Plan[s][j].kind, Plan[s][j].window, market[s]) ELSE <<>>
           Col(s) == [j \in DOMAIN Plan[s] |-> Item(s, j)]
           Next2(s, j) == IF Precomputed(s, j)'
                          THEN Compute(Plan[s][j].kind, Plan[s][j].window, market'[s]) ELSE <<>>
           Col2(s) == [j \in DOMAIN Plan[s] |-> Next2(s, j)]
<1>2. \A s, j : Next2(s, j) = Item(s, j)
  BY <1>1
<1>3. \A s : Col2(s) = Col(s)
  <2> HIDE DEF Next2, Item
  <2> QED
    BY <1>2
<1>4. Series = [s \in Traded |-> Col(s)]
  BY DEF Series
<1>5. Series' = [s \in Traded |-> Col2(s)]
  BY DEF Series
<1>6. Series' = Series
  <2> HIDE DEF Col, Col2
  <2> QED
    BY <1>3, <1>4, <1>5
<1> QED
  BY <1>1, <1>6

\* And so are two loops that agree.
LEMMA AgreeStays ==
  ASSUME market' = market, NEW l, NEW b, Agree(l, b)
  PROVE  Agree(l, b)'
<1>1. Series' = Series
  BY SeriesStays
<1>2. \A ind, e, s, j, m : Beside(ind, e, s, j, m) => Beside(ind, e, s, j, m)'
  <2> SUFFICES ASSUME NEW ind, NEW e, NEW s, NEW j, NEW m, Beside(ind, e, s, j, m)
               PROVE  Beside(ind, e, s, j, m)'
    OBVIOUS
  <2>1. Precomputed(s, j)' <=> Precomputed(s, j)
    BY SeriesStays
  <2>2. PICK vs : vs = Series[s][j]
    OBVIOUS
  <2>3. Series'[s][j] = vs
    BY <1>1, <2>2
  <2>4. IF Precomputed(s, j) THEN Drawing(e, Plan[s][j], vs, m) ELSE e = ind
    BY <2>2 DEF Beside
  <2>5. IF Precomputed(s, j)' THEN Drawing(e, Plan[s][j], Series'[s][j], m) ELSE e = ind
    BY <2>1, <2>3, <2>4
  <2> QED
    BY <2>5 DEF Beside
<1> QED
  BY <1>1, <1>2 DEF Agree

\* And so is a step of the backtest.
LEMMA BackStays ==
  ASSUME NEW b, b.head \in Cursors, market \in Markets, Waiting(b.head) # {}, market' = market,
         NEW actions
  PROVE  BackLoop(b, actions)' = BackLoop(b, actions)
<1>1. PICK h, event, t, next : /\ h = b.head /\ event = Event(h)
                               /\ t = NextTime(h) /\ next = Advanced(h)
  OBVIOUS
<1>2. Event(h)' = event /\ NextTime(h)' = t /\ Advanced(h)' = next
  BY <1>1, TimeStays, EventStays
<1>3. PICK g : g = BeginEvent(b.acct, t, event)
  OBVIOUS
<1>4. Begun(b) = g /\ Begun(b)' = g
  BY <1>1, <1>2, <1>3 DEF Begun
<1>5. PICK drawn, shown : /\ drawn = Drawn(b.drawn, event)
                          /\ shown = TouchedBy(g, Asked(event), Listed)
  OBVIOUS
<1> DEFINE One(s, j) == IF Precomputed(s, j) THEN Sink(b.ind[s][j], b.series[s][j][drawn[s]])
                        ELSE Update(b.ind[s][j], event[s], g.pos[s])
           Two(s, j) == IF Precomputed(s, j)' THEN Sink(b.ind[s][j], b.series[s][j][drawn[s]])
                        ELSE Update(b.ind[s][j], event[s], g.pos[s])
           Col(s) == IF s \notin DOMAIN event THEN b.ind[s]
                     ELSE [j \in DOMAIN b.ind[s] |-> One(s, j)]
           Col2(s) == IF s \notin DOMAIN event THEN b.ind[s]
                      ELSE [j \in DOMAIN b.ind[s] |-> Two(s, j)]
           Ind == [s \in Traded |-> Col(s)]
           Ind2 == [s \in Traded |-> Col2(s)]
<1>6. \A s, j : One(s, j) = Two(s, j)
  BY SeriesStays
<1>7. \A s : Col(s) = Col2(s)
  <2> HIDE DEF One, Two
  <2> QED
    BY <1>6
<1>8. Ind = Ind2
  <2> HIDE DEF Col, Col2
  <2> QED
    BY <1>7
<1>9. BackLoop(b, actions) =
        [b EXCEPT !.head = next, !.ind = Ind, !.drawn = drawn,
                  !.acct = SubmitAll(shown, t, actions), !.view = View(Ind, shown, t)]
  BY <1>1, <1>4, <1>5 DEF BackLoop
<1>10. BackLoop(b, actions)' =
        [b EXCEPT !.head = next, !.ind = Ind2, !.drawn = drawn,
                  !.acct = SubmitAll(shown, t, actions), !.view = View(Ind2, shown, t)]
  BY <1>1, <1>2, <1>4, <1>5 DEF BackLoop
<1> QED
  <2> HIDE DEF Ind, Ind2
  <2> QED
    BY <1>8, <1>9, <1>10

(***************************************************************************)
(* The inductive invariant: after every event the loops agree, and between *)
(* the two they will once the backtest has taken its step.                 *)
(***************************************************************************)
Together == \E l, b : l = live /\ b = back /\ Agree(l, b)
Behind ==
  \E l, b, a, k :
    /\ l = live /\ b = back /\ a = acts
    /\ b.head \in Cursors /\ Waiting(b.head) # {}
    /\ k = BackLoop(b, a) /\ Agree(l, k)
LoopsAgree ==
  /\ phase \in {"new", "refused", "running", "late"}
  /\ phase \in {"new", "refused"} => live = NewLoop /\ back = NewBack
  /\ phase = "running" => IF InStep THEN Together ELSE Behind
  /\ phase = "late" => ~InStep
BothInv == LiveIsFed /\ LoopsAgree

\* What leaves both loops alone leaves them in agreement.
LEMMA TogetherStays == market' = market /\ UNCHANGED <<live, back>> /\ Together => Together'
<1> SUFFICES ASSUME market' = market, UNCHANGED <<live, back>>, Together PROVE Together'
  OBVIOUS
<1>1. PICK l, b : l = live /\ b = back /\ Agree(l, b)
  BY DEF Together
<1>2. Agree(l, b)'
  BY <1>1, AgreeStays
<1>3. l = live' /\ b = back'
  BY <1>1
<1> QED
  BY <1>2, <1>3 DEF Together

\* What leaves them and the actions alone leaves the backtest one step behind.
LEMMA BehindStays ==
  ASSUME market \in Markets, market' = market, UNCHANGED <<live, back, acts>>, Behind
  PROVE  Behind'
<1>1. PICK l, b, a, k :
        /\ l = live /\ b = back /\ a = acts
        /\ b.head \in Cursors /\ Waiting(b.head) # {}
        /\ k = BackLoop(b, a) /\ Agree(l, k)
  BY DEF Behind
<1>2. Agree(l, k)' /\ BackLoop(b, a)' = k
  BY <1>1, AgreeStays, BackStays
<1>3. Waiting(b.head)' # {}
  BY <1>1 DEF Waiting
<1>4. l = live' /\ b = back' /\ a = acts'
  BY <1>1
<1> QED
  BY <1>1, <1>2, <1>3, <1>4 DEF Behind

\* Every step: the live loop goes first, and the backtest follows.
LEMMA NextAgrees ==
  ASSUME SameOrder, BothInv, [NextLoops]_loopVars
  PROVE  LoopsAgree'
<1>1. LiveIsFed /\ LoopsAgree /\ LoopShape /\ Fed(live)
  BY DEF BothInv, LiveIsFed
<1>2. /\ market \in Markets /\ live.head \in Cursors /\ live.acct \in Account
  BY <1>1 DEF LoopShape
<1>3. CASE UNCHANGED loopVars
  <2>1. UNCHANGED <<market, live, back, acts, phase>> /\ (InStep' <=> InStep)
    BY <1>3 DEF loopVars, InStep
  <2>2. Together => Together'
    BY <2>1, TogetherStays
  <2>3. Behind => Behind'
    BY <1>2, <2>1, BehindStays
  <2> QED
    BY <1>1, <2>1, <2>2, <2>3 DEF LoopsAgree
<1>4. CASE Start
  <2>1. /\ phase = "new" /\ live = NewLoop /\ back = NewBack /\ UNCHANGED <<market, live, acts>>
    BY <1>1, <1>4 DEF Start, LoopsAgree
  <2>2. CASE phase' = "refused" /\ UNCHANGED back
    BY <2>1, <2>2 DEF LoopsAgree
  <2>3. CASE phase' = "running" /\ back' = [back EXCEPT !.series = Series]
    <3>1. PICK l, b : l = live /\ b = [NewBack EXCEPT !.series = Series]
      OBVIOUS
    <3>2. Agree(l, b)
      BY <1>2, <2>1, <3>1, StartAgrees
    <3>3. live' = l /\ back' = b
      BY <2>1, <2>3, <3>1
    <3>4. InStep'
      BY <3>2, <3>3 DEF InStep, Agree
    <3>5. Agree(l, b)'
      BY <2>1, <3>2, AgreeStays
    <3>6. Together'
      BY <3>3, <3>5 DEF Together
    <3> QED
      BY <2>3, <3>4, <3>6 DEF LoopsAgree
  <2> QED
    BY <1>4, <2>2, <2>3 DEF Start
<1>5. ASSUME NEW actions, LiveEvent(actions) PROVE LoopsAgree'
  <2>1. /\ phase = "running" /\ InStep /\ Waiting(live.head) # {} /\ acts' = actions
        /\ live' = LiveLoop(live, actions) /\ UNCHANGED <<market, back, phase>>
    BY <1>5 DEF LiveEvent
  <2>2. PICK l, b : l = live /\ b = back /\ Agree(l, b)
    BY <1>1, <2>1 DEF LoopsAgree, Together
  <2>3. PICK n, k : n = LiveLoop(l, actions) /\ k = BackLoop(b, actions)
    OBVIOUS
  <2>4. l.head \in Cursors /\ l.acct \in Account /\ Waiting(l.head) # {} /\ Fed(l)
    BY <1>1, <1>2, <2>1, <2>2
  <2>5. Agree(n, k)
    BY <1>2, <2>2, <2>3, <2>4, LoopsStep
  <2>6. b.head = l.head
    BY <2>2 DEF Agree
  <2>7. n.head # l.head
    <3>1. n.head = Advanced(l.head)
      BY <2>3 DEF LiveLoop
    <3> QED
      BY <1>2, <2>4, <3>1, LiveMoves
  <2>8. live' = n /\ back' = b /\ acts' = actions
    BY <2>1, <2>2, <2>3
  <2>9. ~InStep'
    BY <2>6, <2>7, <2>8 DEF InStep
  <2>10. Agree(n, k)' /\ BackLoop(b, actions)' = k
    <3>1. b.head \in Cursors /\ Waiting(b.head) # {}
      BY <2>4, <2>6
    <3>2. Agree(n, k)'
      BY <2>1, <2>5, AgreeStays
    <3>3. BackLoop(b, actions)' = BackLoop(b, actions)
      BY <1>2, <2>1, <3>1, BackStays
    <3> QED
      BY <2>3, <3>2, <3>3
  <2>11. b.head \in Cursors /\ Waiting(b.head)' # {}
    BY <2>1, <2>4, <2>6 DEF Waiting
  <2>12. Behind'
    BY <2>8, <2>10, <2>11 DEF Behind
  <2> QED
    BY <2>1, <2>9, <2>12 DEF LoopsAgree
<1>6. CASE BacktestEvent
  <2>1. /\ phase = "running" /\ ~InStep /\ back' = BackLoop(back, acts)
        /\ UNCHANGED <<market, live, acts, phase>>
    BY <1>6 DEF BacktestEvent
  <2>2. PICK l, b, a, k : /\ l = live /\ b = back /\ a = acts
                          /\ k = BackLoop(b, a) /\ Agree(l, k)
    BY <1>1, <2>1 DEF LoopsAgree, Behind
  <2>3. live' = l /\ back' = k
    BY <2>1, <2>2
  <2>4. InStep'
    BY <2>2, <2>3 DEF InStep, Agree
  <2>5. Agree(l, k)'
    BY <2>1, <2>2, AgreeStays
  <2>6. Together'
    BY <2>3, <2>5 DEF Together
  <2> QED
    BY <2>1, <2>4, <2>6 DEF LoopsAgree
<1>7. ASSUME NEW actions, NEW refused, LateEvent(actions, refused) PROVE LoopsAgree'
  <2>1. /\ phase = "running" /\ InStep /\ Waiting(live.head) # {}
        /\ live' = LiveLoop(live, acts') /\ phase' = "late" /\ UNCHANGED <<market, back>>
    BY <1>7 DEF LateEvent
  <2>2. live'.head = Advanced(live.head)
    BY <2>1 DEF LiveLoop
  <2>3. PICK h : h = live.head
    OBVIOUS
  <2>4. Advanced(h) # h
    BY <1>2, <2>1, <2>3, LiveMoves
  <2>5. ~InStep'
    BY <2>1, <2>2, <2>3, <2>4 DEF InStep
  <2> QED
    BY <2>1, <2>5 DEF LoopsAgree
<1> QED
  BY <1>3, <1>4, <1>5, <1>6, <1>7 DEF NextLoops

(***************************************************************************)
(* For any candles, plan and strategy, the backtest shows the strategy the *)
(* same values, account and equity as the live loop and fills the same     *)
(* orders (BacktestEngine against TradingEngine, vectorised or not).       *)
(* Where the streams come in another order than the symbols are listed, at *)
(* most one symbol may ask for its age: asking makes a symbol known to the *)
(* account, and the account liquidates in the order they became known.     *)
(***************************************************************************)
THEOREM OnSameCandles ==
  ASSUME SameOrder
  PROVE  SpecLoops => []BacktestIsLive
<1>1. InitLoops => BothInv
  <2> SUFFICES ASSUME InitLoops PROVE BothInv
    OBVIOUS
  <2>1. /\ market \in Markets /\ live = NewLoop /\ back = NewBack /\ phase = "new"
    BY DEF InitLoops
  <2>2. LiveIsFed
    BY <2>1, InitShape, FreshFed DEF LiveIsFed, LoopShape, Fed
  <2>3. LoopsAgree
    BY <2>1 DEF LoopsAgree
  <2> QED
    BY <2>2, <2>3 DEF BothInv
<1>2. BothInv /\ [NextLoops]_loopVars => BothInv'
  BY NextFed, NextAgrees DEF BothInv
<1>3. BothInv => BacktestIsLive
  <2> SUFFICES ASSUME BothInv, InStep
               PROVE  back.view = live.view /\ back.acct.trades = live.acct.trades
    BY DEF BacktestIsLive
  <2>1. LoopsAgree
    BY DEF BothInv
  <2>2. CASE phase \in {"new", "refused"}
    BY <2>1, <2>2, NewBackIs DEF LoopsAgree
  <2>3. CASE phase = "running"
    <3>1. PICK l, b : l = live /\ b = back /\ Agree(l, b)
      BY <2>1, <2>3 DEF LoopsAgree, Together
    <3> QED
      BY <3>1 DEF Agree
  <2> QED
    BY <2>1, <2>2, <2>3 DEF LoopsAgree
<1> QED
  BY <1>1, <1>2, <1>3, PTL DEF SpecLoops

=============================================================================

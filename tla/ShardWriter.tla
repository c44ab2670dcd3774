---------------------------- MODULE ShardWriter ----------------------------
(***************************************************************************)
(* The time series of a live run on disk: core/result/writer.py,           *)
(* ShardWriter.                                                            *)
(*                                                                         *)
(* A row per recorded event goes to the buffer of the current month.  A    *)
(* shard file holds one month; it is rewritten as a whole from the buffer, *)
(* at a checkpoint or when the month of the next row differs.  The index   *)
(* names the months that have a file; the recorder stores it in the run's  *)
(* JSON, and a restarted process resumes from there.                       *)
(*                                                                         *)
(* A row is its number; times are months, and columns are left out.  Every *)
(* file is written atomically (_write_json) and no write fails.            *)
(***************************************************************************)
EXTENDS Integers, Sequences, SequencesExt

CONSTANTS
  MaxMonth,   \* bound: the months a run spans
  Runs        \* the run ids that may have files

ASSUME MonthAssumption == MaxMonth \in Nat \ {0}

Months == 1..MaxMonth
NoMonth == 0

VARIABLES
  run,      \* run_id of the process
  month,    \* _month
  buffer,   \* the rows of _time
  index,    \* shards, as months
  files     \* disk: per run and month, the rows of its shard file

writer == <<run, month, buffer, index, files>>

(* A new writer (__init__): nothing buffered, nothing indexed.             *)
WriterInit ==
  /\ month = NoMonth /\ buffer = {} /\ index = <<>>
  /\ files = [r \in Runs |-> [m \in Months |-> {}]]

FreshWriter == month' = NoMonth /\ buffer' = {} /\ index' = <<>>

(* resume: the last shard is read back into the buffer, and comes back to  *)
(* the index with the next checkpoint.  A lost shard leaves a hole.        *)
ResumeBlind(shards) ==   \* a faulty variant: the last shard is not read back
  /\ index' = Front(shards)
  /\ month' = Last(shards) /\ buffer' = {}
Resume(shards) ==
  /\ index' = Front(shards)
  /\ buffer' = files[run'][Last(shards)]
  /\ month' = IF buffer' = {} THEN NoMonth ELSE Last(shards)

ResumeWriter(shards) ==
  IF shards = <<>> THEN FreshWriter ELSE Resume(shards)

(* _commit: an entry of the same file is replaced in place. *)
Committed(m) == IF m \in ToSet(index) THEN index ELSE Append(index, m)

(* checkpoint: rewrite the file of the current month, then index it. *)
Checkpoint ==
  IF buffer = {}
    THEN UNCHANGED <<index, files>>
    ELSE /\ files' = [files EXCEPT ![run][month] = buffer]
         /\ index' = Committed(month)

(* add: another month than the buffer's flushes the buffer first. *)
Add(row, m) ==
  \/ /\ m = month
     /\ buffer' = buffer \cup {row}
     /\ UNCHANGED <<month, index, files>>
  \/ /\ m # month
     /\ Checkpoint
     /\ month' = m /\ buffer' = {row}

(* What the process still has: its buffer and the files it has indexed. *)
Held == buffer \cup UNION {files[run][m] : m \in ToSet(index)}
============================================================================

---------------------------- MODULE ParameterSweep --------------------------
(***************************************************************************)
(* A grid of backtests over forked workers: core/sweep/runner.py,          *)
(* ParameterSweep, and the cache of computed series its runs share         *)
(* (core/engine/backtest.py, _cached_or_compute).                          *)
(*                                                                         *)
(* The parent builds every job's strategy once and computes each series it *)
(* has a key for; then it forks.  A worker inherits the cache, adds to its *)
(* own copy what its jobs still compute, and is replaced after a number of *)
(* jobs by a fresh fork.  Results come back in any order.  A job that      *)
(* raises ends the sweep; a worker that is killed takes its job with it.   *)
(*                                                                         *)
(* A job is one BacktestEngine run (see EventLoops).  Its summary is       *)
(* determined by the series put under its indicators, so it is the record  *)
(* of them, and a series is the record of all that determines it.          *)
(***************************************************************************)
EXTENDS Integers, Sequences, FiniteSets

CONSTANTS
  Candles,      \* the keys of candles_by_symbol
  JobLists,     \* what run() may be given: sequences of [symbols, inds, fails]
  MaxWorkers,
  MaxTasks,     \* maxtasksperchild
  MaxDeaths,    \* bound: how many workers are killed
  Nothing       \* no result, no job, no key

ASSUME SweepAssumption ==
  MaxWorkers \in Nat \ {0} /\ MaxTasks \in Nat \ {0} /\ MaxDeaths \in Nat

ASSUME JobAssumption ==
  \A list \in JobLists :
    /\ Len(list) \in Nat /\ DOMAIN list = 1..Len(list)
    /\ \A i \in DOMAIN list : \A ind \in list[i].inds : ind.custom \in BOOLEAN

VARIABLES
  jobs,       \* the grid
  workers,    \* resolve_workers
  precompute, \* the option: with a cache or without
  phase,      \* "new", "warming", "running", "done", "refused" or "raised"
  warmed,     \* how many jobs _warm_cache has been through
  cache,      \* the parent's: [<<symbol, key>> -> series]
  own,        \* what each worker's copy has become
  busy,       \* the job a worker runs
  tasks,      \* how many jobs it has run
  next,       \* the next index the pool hands out
  sent,       \* the results on their way to the parent
  results,    \* the list run() fills
  deaths

grid == <<jobs, workers, precompute>>
pool == <<own, busy, tasks, next>>
vars == <<jobs, workers, precompute, phase, warmed, cache, own, busy, tasks, next,
          sent, results, deaths>>

Empty == [k \in {} |-> Nothing]

Init ==
  /\ jobs \in JobLists
  /\ workers \in 1..MaxWorkers
  /\ precompute \in BOOLEAN
  /\ phase = "new"
  /\ warmed = 0
  /\ cache = Empty
  /\ own = [w \in 1..workers |-> Empty]
  /\ busy = [w \in 1..workers |-> Nothing]
  /\ tasks = [w \in 1..workers |-> 0]
  /\ next = 1
  /\ sent = {}
  /\ results = [i \in DOMAIN jobs |-> Nothing]
  /\ deaths = 0

-----------------------------------------------------------------------------
(* Series and their keys.                                                  *)

\* compute(*ohlcv): by the candles, the class that defines it and its arguments.
\* How much history the indicator keeps has no part in it.
SeriesOf(symbol, ind) ==
  [symbol |-> symbol, class |-> ind.class, window |-> ind.window, custom |-> ind.custom]

\* Mutant: a subclass that overrides compute inherits its parent's key.
InheritedKey(ind) == <<ind.class, ind.window>>

\* cache_key, _own_cache_key: none for a subclass with a compute of its own.
CacheKey(ind) == IF ind.custom THEN Nothing ELSE <<ind.class, ind.window>>

Uses(job) == job.symbols \X job.inds
Missing(job, known) ==
  {<<u[1], CacheKey(u[2])>> : u \in {v \in Uses(job) : CacheKey(v[2]) # Nothing}} \ DOMAIN known

\* What the first use of a key in the job leaves in a cache.
Added(job, known) ==
  [k \in DOMAIN known \cup Missing(job, known) |->
     IF k \in DOMAIN known THEN known[k]
     ELSE LET u == CHOOSE v \in Uses(job) : <<v[1], CacheKey(v[2])>> = k IN
          SeriesOf(u[1], u[2])]

\* _cached_or_compute, for every indicator of the job: its summary.
Summary(job, known) ==
  [u \in Uses(job) |-> IF ~precompute \/ CacheKey(u[2]) = Nothing THEN SeriesOf(u[1], u[2])
                       ELSE Added(job, known)[<<u[1], CacheKey(u[2])>>]]

\* The same job run by itself.
Direct(job) == [u \in Uses(job) |-> SeriesOf(u[1], u[2])]

-----------------------------------------------------------------------------
(* run.                                                                    *)

\* A job on a symbol without candles is refused; an empty grid is done.
Start ==
  /\ phase = "new"
  /\ phase' = IF \E i \in DOMAIN jobs : ~(jobs[i].symbols \subseteq Candles) THEN "refused"
              ELSE IF jobs = <<>> THEN "done" ELSE "warming"
  /\ UNCHANGED <<grid, warmed, cache, pool, sent, results, deaths>>

\* _warm_cache: one job's strategy, and the series it adds.
WarmJob ==
  /\ phase = "warming"
  /\ precompute
  /\ warmed < Len(jobs)
  /\ cache' = Added(jobs[warmed + 1], cache)
  /\ warmed' = warmed + 1
  /\ UNCHANGED <<grid, phase, pool, sent, results, deaths>>

\* The pool is opened, and its workers inherit the cache.
Fork ==
  /\ phase = "warming"
  /\ precompute => warmed = Len(jobs)
  /\ phase' = "running"
  /\ own' = [w \in 1..workers |-> cache]
  /\ UNCHANGED <<grid, warmed, cache, busy, tasks, next, sent, results, deaths>>

\* An idle worker is given the next index; one that is used up is forked anew.
\* A single worker is this process, and maps one job after the other.
Take(w) ==
  LET anew == workers > 1 /\ tasks[w] = MaxTasks IN
  /\ phase = "running"
  /\ busy[w] = Nothing
  /\ next <= Len(jobs)
  /\ workers = 1 => sent = {}
  /\ busy' = [busy EXCEPT ![w] = next]
  /\ next' = next + 1
  /\ own' = IF anew THEN [own EXCEPT ![w] = cache] ELSE own
  /\ tasks' = [tasks EXCEPT ![w] = IF anew THEN 1 ELSE @ + 1]
  /\ UNCHANGED <<grid, phase, warmed, cache, sent, results, deaths>>

\* _run_job: the summary, or the exception.
RunJob(w) ==
  LET i == busy[w] IN
  /\ phase = "running"
  /\ i # Nothing
  /\ sent' = sent \cup {[index |-> i, failed |-> jobs[i].fails,
                         summary |-> Summary(jobs[i], own[w])]}
  /\ own' = IF precompute THEN [own EXCEPT ![w] = Added(jobs[i], @)] ELSE own
  /\ busy' = [busy EXCEPT ![w] = Nothing]
  /\ UNCHANGED <<grid, phase, warmed, cache, tasks, next, results, deaths>>

\* The system kills a worker for its memory: the pool replaces it, not its job.
Killed(w) ==
  /\ phase = "running"
  /\ workers > 1
  /\ deaths < MaxDeaths
  /\ deaths' = deaths + 1
  /\ busy' = [busy EXCEPT ![w] = Nothing]
  /\ own' = [own EXCEPT ![w] = cache]
  /\ tasks' = [tasks EXCEPT ![w] = 0]
  /\ UNCHANGED <<grid, phase, warmed, cache, next, sent, results>>

\* _collect: by the index that came with it; an exception ends the run.
Collect(m) ==
  /\ phase = "running"
  /\ m \in sent
  /\ sent' = sent \ {m}
  /\ IF m.failed
     THEN phase' = "raised" /\ UNCHANGED results
     ELSE results' = [results EXCEPT ![m.index] = m.summary] /\ UNCHANGED phase
  /\ UNCHANGED <<grid, warmed, cache, pool, deaths>>

Finish ==
  /\ phase = "running"
  /\ \A i \in DOMAIN jobs : results[i] # Nothing
  /\ phase' = "done"
  /\ UNCHANGED <<grid, warmed, cache, pool, sent, results, deaths>>

Next ==
  \/ Start \/ WarmJob \/ Fork \/ Finish
  \/ \E w \in 1..workers : Take(w) \/ RunJob(w) \/ Killed(w)
  \/ \E m \in sent : Collect(m)

Spec == Init /\ [][Next]_vars

-----------------------------------------------------------------------------
(***************************************************************************)
(* The promise of the module: a sweep's results are those of the same jobs *)
(* run one by one, each at its job's place, however the jobs were spread,  *)
(* whatever the workers had computed before, with a cache and without; a   *)
(* sweep that is done has all of them.                                     *)
(***************************************************************************)
SweepIsSequential ==
  /\ \A i \in DOMAIN jobs : results[i] # Nothing => results[i] = Direct(jobs[i])
  /\ phase = "done" => \A i \in DOMAIN jobs : results[i] # Nothing

(***************************************************************************)
(* A sweep that was started comes to an end.  It does not when a worker is *)
(* killed: its job is lost and the parent waits for it for ever.           *)
(***************************************************************************)
FairSpec ==
  /\ Spec
  /\ WF_vars(Start) /\ WF_vars(WarmJob) /\ WF_vars(Fork) /\ WF_vars(Finish)
  /\ WF_vars(\E w \in 1..workers : Take(w))
  /\ \A w \in 1..MaxWorkers : WF_vars(w <= workers /\ RunJob(w))
  /\ WF_vars(\E m \in sent : Collect(m))
SweepEnds == <>(phase \in {"done", "refused", "raised"})

=============================================================================

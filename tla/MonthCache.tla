---------------------------- MODULE MonthCache -----------------------------
(***************************************************************************)
(* The month cache of core/fetcher/base.py, get_candles_with_cache, with   *)
(* the hooks a stock fetcher gives it (massive_fetcher.py).                *)
(*                                                                         *)
(* Per month the disk holds a chunk, once the month is over and for good,  *)
(* or a partial chunk with the finished candles of the month in progress,  *)
(* which the next call extends and in the end promotes to a chunk.  A file *)
(* is written beside its place and moved there (pickle_storage.py), so it  *)
(* is there or not; but a call writes and deletes several, any fetch may   *)
(* raise, and the process may die between any two steps while time goes on *)
(* and the stock splits.                                                   *)
(***************************************************************************)
EXTENDS CandleSources, Functions, SequencesExt

VARIABLES
  chunk,     \* disk: the months that have a chunk, and its candles
  partial,   \* disk: the months that have a partial chunk, and its candles
  meta,      \* disk: the splits of _meta.json, or Absent, or Torn
  call,      \* the call of get_candles_with_cache in progress
  unfound    \* history: days of over months a fetch found no file of

cacheVars == <<chunk, partial, meta, call, unfound>>

Absent == -1
Torn == -2
Idle == [pc |-> "idle"]

(* pc: "hook", "drop", "mark" in _on_cache_open; "classify"; "fetch"; then  *)
(* per month "save" and "promote" in _save_month_chunks.                   *)
Call(first, last) ==
  [pc |-> "hook", first |-> first, last |-> last,
   latest |-> 0,        \* the splits the source told the hook of
   until |-> 0,         \* available_until
   delta |-> {}, missing |-> {},
   got |-> << >>,       \* all_candles
   candles |-> << >>,   \* being saved, from this month
   month |-> 0, runEnd |-> 0]

InitCache ==
  chunk = << >> /\ partial = << >> /\ meta = Absent /\ call = Idle /\ unfound = {}

Request(first, last) ==
  /\ call = Idle
  /\ call' = Call(first, last)
  /\ UNCHANGED <<chunk, partial, meta, unfound>>

(* _on_cache_open.  Only the stock fetcher has one: it asks for the last   *)
(* split and compares it with the one in _meta.json, which it cannot read  *)
(* if the process died writing it.                                         *)
OnCacheOpen ==
  /\ call.pc = "hook"
  /\ ~(source = "stock" /\ meta = Torn)
  /\ call' = [call EXCEPT
       !.latest = splits,
       !.pc = IF source # "stock" \/ meta = splits THEN "classify"
              ELSE IF meta = Absent THEN "mark" ELSE "drop"]
  /\ UNCHANGED <<chunk, partial, meta, unfound>>

Without(files, m) == Restrict(files, DOMAIN files \ {m})

(* Mutant of DropStale: deletes the chunks only. *)
DropChunks ==
  /\ call.pc = "drop"
  /\ \/ \E m \in DOMAIN chunk : chunk' = Without(chunk, m) /\ UNCHANGED call
     \/ /\ DOMAIN chunk = {}
        /\ call' = [call EXCEPT !.pc = "mark"]
        /\ UNCHANGED chunk
  /\ UNCHANGED <<partial, meta, unfound>>

DropStale ==
  /\ call.pc = "drop"
  /\ \/ \E m \in DOMAIN chunk : chunk' = Without(chunk, m) /\ UNCHANGED <<partial, call>>
     \/ \E m \in DOMAIN partial : partial' = Without(partial, m) /\ UNCHANGED <<chunk, call>>
     \/ /\ DOMAIN chunk = {} /\ DOMAIN partial = {}
        /\ call' = [call EXCEPT !.pc = "mark"]
        /\ UNCHANGED <<chunk, partial>>
  /\ UNCHANGED <<meta, unfound>>

WriteMeta ==
  /\ call.pc = "mark"
  /\ meta' = call.latest
  /\ call' = [call EXCEPT !.pc = "classify"]
  /\ UNCHANGED <<chunk, partial, unfound>>

(* available_until is read once; each month of the range is read from its  *)
(* chunk, or has a partial chunk to extend, or is missing.                 *)
Classify ==
  /\ call.pc = "classify"
  /\ LET months == call.first..call.last
         rest == months \ DOMAIN chunk
     IN call' = [call EXCEPT
          !.pc = "fetch",
          !.until = DataAvailableUntil,
          !.got = FlattenSeq([i \in 1..Months |->
                    IF i - 1 \in months \cap DOMAIN chunk THEN chunk[i - 1] ELSE << >>]),
          !.delta = rest \cap DOMAIN partial,
          !.missing = rest \ DOMAIN partial]
  /\ UNCHANGED <<chunk, partial, meta, unfound>>

Save(candles, got, month, runEnd) ==
  [call EXCEPT !.pc = "save", !.got = got, !.candles = candles,
               !.month = month, !.runEnd = runEnd]

(* Mutant of DeltaStart: from the last candle on. *)
DeltaFromLast(m) == IF partial[m] = << >> THEN MonthStart(m) ELSE StartOf(Last(partial[m]).slot)

(* What a fetch of [from, to) finds no file of.                            *)
LeftOut(from, to) ==
  IF source = "vision" /\ from < to
  THEN UNION {DaysAsked(m, from, to) : m \in {n \in MonthNumbers : NoFile(n, from, to)}}
  ELSE {}

(* The partial chunk is extended from the end of its last candle.           *)
DeltaStart(m) == IF partial[m] = << >> THEN MonthStart(m) ELSE EndOf(Last(partial[m]).slot)

FetchDelta ==
  /\ call.pc = "fetch" /\ call.delta # {}
  /\ LET m == Min(call.delta)
         end == Min({MonthStart(m + 1), call.until})
         candles == partial[m] \o
                      (IF DeltaStart(m) < end THEN GetCandles(DeltaStart(m), end) ELSE << >>)
     IN /\ call' = [Save(candles, call.got \o candles, m, m + 1)
                      EXCEPT !.delta = call.delta \ {m}]
        /\ unfound' = unfound \cup LeftOut(DeltaStart(m), end)
  /\ UNCHANGED <<chunk, partial, meta>>

(* The months that are missing are fetched a run of consecutive months at  *)
(* a time; a run that has no data yet is left alone.                       *)
RunEnd(months) == Min({e \in 1..Months : e - 1 \in months /\ e \notin months})

FetchRun ==
  /\ call.pc = "fetch" /\ call.delta = {} /\ call.missing # {}
  /\ LET start == Min(call.missing)
         runEnd == RunEnd(call.missing)
         end == Min({MonthStart(runEnd), call.until})
         left == call.missing \ (start..(runEnd - 1))
         candles == GetCandles(MonthStart(start), end)
     IN /\ call' = IF end <= MonthStart(start)
                   THEN [call EXCEPT !.missing = left]
                   ELSE [Save(candles, call.got \o candles, start, runEnd)
                           EXCEPT !.missing = left]
        /\ unfound' = unfound \cup LeftOut(MonthStart(start), end)
  /\ UNCHANGED <<chunk, partial, meta>>

(* by_month, and the candles that are over.                                *)
OfMonth(candles, m) == At(candles, {i \in DOMAIN candles : MonthOf(candles[i].slot) = m})
Closed(candles, until) == At(candles, {i \in DOMAIN candles : EndOf(candles[i].slot) <= until})

(* Mutant of SaveMonth: the candle in progress is saved too. *)
SaveWithOpen ==
  /\ call.pc = "save"
  /\ LET m == call.month
         own == OfMonth(call.candles, m)
     IN IF MonthStart(m + 1) <= call.until
        THEN /\ chunk' = Written(chunk, m, own)
             /\ call' = [call EXCEPT !.pc = "promote"]
             /\ UNCHANGED partial
        ELSE /\ partial' = Written(partial, m, own)
             /\ call' = [call EXCEPT !.pc = "fetch"]
             /\ UNCHANGED chunk
  /\ UNCHANGED <<meta, unfound>>

(* _save_month_chunks, one month: a month that is over becomes a chunk; of  *)
(* the one in progress the finished candles are kept, and the saving ends. *)
SaveMonth ==
  /\ call.pc = "save"
  /\ LET m == call.month
         own == OfMonth(call.candles, m)
         closed == Closed(own, call.until)
     IN IF MonthStart(m + 1) <= call.until
        THEN /\ chunk' = Written(chunk, m, own)
             /\ call' = [call EXCEPT !.pc = "promote"]
             /\ UNCHANGED partial
        ELSE /\ partial' = Written(partial, m, closed)
             /\ call' = [call EXCEPT !.pc = "fetch"]
             /\ UNCHANGED chunk
  /\ UNCHANGED <<meta, unfound>>

Promote ==
  /\ call.pc = "promote"
  /\ partial' = Without(partial, call.month)
  /\ call' = [call EXCEPT !.month = call.month + 1,
                          !.pc = IF call.month + 1 < call.runEnd THEN "save" ELSE "fetch"]
  /\ UNCHANGED <<chunk, meta, unfound>>

Returning == call.pc = "fetch" /\ call.delta = {} /\ call.missing = {}

Return == Returning /\ call' = Idle /\ UNCHANGED <<chunk, partial, meta, unfound>>

(* A request to the source fails for good, or _meta.json cannot be read:    *)
(* the exception ends the call and what was saved stays.                   *)
Raise ==
  /\ \/ call.pc = "hook" /\ source = "stock"
     \/ call.pc = "fetch" /\ ~Returning
  /\ call' = Idle
  /\ UNCHANGED <<chunk, partial, meta, unfound>>

(* The process dies.  _meta.json is written in place.                      *)
Crash ==
  /\ call # Idle
  /\ call' = Idle
  /\ meta' \in {meta} \cup (IF call.pc = "mark" THEN {Torn} ELSE {})
  /\ UNCHANGED <<chunk, partial, unfound>>

CacheStep ==
  \/ \E first, last \in MonthNumbers : first <= last /\ Request(first, last)
  \/ OnCacheOpen \/ DropStale \/ WriteMeta \/ Classify
  \/ FetchDelta \/ FetchRun \/ SaveMonth \/ Promote
  \/ Return \/ Raise \/ Crash

(***************************************************************************)
(* Properties.                                                             *)
(***************************************************************************)
SlotsIn(candles) == [i \in DOMAIN candles |-> candles[i].slot]
AllFinal(candles) == \A i \in DOMAIN candles : candles[i].final

(* What the source can ever say of the slots of S: those listed, and of a   *)
(* stock those of a session from its first trade on.                       *)
SessionSlots == {k \in Slots : \E o \in Opens : InSession(o, k)}
Existing(S) ==
  {k \in S : /\ k >= listing
             /\ source = "stock" =>
                  k \in SessionSlots /\ \E j \in (listing..k) \cap SessionSlots : j \notin Quiet}

(* A stock has traded in the session of k by k, and the session opened in   *)
(* k's month.                                                              *)
Opened(k) ==
  \E o \in Opens : /\ InSession(o, k) /\ MonthOf(o) = MonthOf(k)
                   /\ \E j \in o..k : j \notin Quiet /\ j >= listing

(* What no fetch may miss of S, and what it may miss only of the days it    *)
(* found no file of.                                                       *)
Certain(S) == {k \in Existing(S) : source = "stock" => Opened(k)}
Assured(S) == {k \in Certain(S) : source = "vision" => DayOf(k) \notin unfound}

(* The candles are finished, in order, each once; all of those of "most",   *)
(* none of "least" missing.                                                *)
HoldsBetween(candles, least, most) ==
  /\ AllFinal(candles)
  /\ \A i, j \in DOMAIN candles : i < j => candles[i].slot < candles[j].slot
  /\ least \subseteq Range(SlotsIn(candles)) /\ Range(SlotsIn(candles)) \subseteq most

(* A chunk is never looked at again, so it holds every candle its month     *)
(* has, each once, in order and finished; a partial chunk holds, of what    *)
(* its month has, everything up to its last candle, because the next call   *)
(* continues there (_save_month_chunks, the comment at                     *)
(* rest_fetcher.py:117).  Three things are not in it, and nothing else:     *)
(* what the vision fetcher found no file of when it was asked; of a stock   *)
(* what precedes the first trade of a session, and the last hours of a      *)
(* session that opened in the month before (each a finding: CacheIsSource). *)
CacheIsSound ==
  /\ \A m \in DOMAIN chunk :
       HoldsBetween(chunk[m], Assured(SlotsOf(m)), Existing(SlotsOf(m)))
  /\ \A m \in DOMAIN partial :
       HoldsBetween(partial[m],
                    {k \in Certain(SlotsOf(m)) : partial[m] # << >> /\ k <= Last(partial[m]).slot},
                    Existing(SlotsOf(m)))

(* What the comments say of the cache (vision_fetcher.py:25, massive_       *)
(* fetcher.py:142): a chunk holds every candle its month has, a partial     *)
(* chunk the first ones.                                                   *)
Truth(S) == Ascending(Existing(S))
CacheIsSource ==
  /\ \A m \in DOMAIN chunk : AllFinal(chunk[m]) /\ SlotsIn(chunk[m]) = Truth(SlotsOf(m))
  /\ \A m \in DOMAIN partial :
       AllFinal(partial[m]) /\ IsPrefix(SlotsIn(partial[m]), Truth(SlotsOf(m)))

(* Whatever the mixture of chunks, extended partial chunks and fetches a    *)
(* call is put together from, whatever calls before it failed or died, the  *)
(* candles it sorts and returns exist, are there once, and are all those of *)
(* the range (get_candles_with_cache, base.py:121), but for the three gaps  *)
(* of CacheIsSound.                                                        *)
ReturnsSource ==
  Returning =>
    LET asked == {k \in Slots : MonthOf(k) \in call.first..call.last /\ StartOf(k) < call.until}
        slots == SlotsIn(call.got)
    IN /\ IsInjective(slots)
       /\ Assured(asked) \subseteq Range(slots) /\ Range(slots) \subseteq Existing(asked)

(* Prices of before and after a split are never mixed: once _meta.json     *)
(* names the last split, every candle of the cache is adjusted for it, also *)
(* when a call died while it deleted the stale files or the stock split    *)
(* while it fetched (_on_cache_open).                                      *)
NoMixedAdjustment ==
  source = "stock" /\ meta = splits =>
    \A m \in MonthNumbers :
      /\ m \in DOMAIN chunk => \A i \in DOMAIN chunk[m] : chunk[m][i].adjusted = splits
      /\ m \in DOMAIN partial => \A i \in DOMAIN partial[m] : partial[m][i].adjusted = splits

============================================================================

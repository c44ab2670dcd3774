----------------------------- MODULE DumpCache -----------------------------
(***************************************************************************)
(* The caches of the funding and the metrics dumps (funding_fetcher.py,    *)
(* metrics_fetcher.py).  Unlike the month cache they have no partial       *)
(* files: a month is fetched whole, a funding month from its one file, a   *)
(* metrics month from its daily files, and what is worth keeping is        *)
(* written in place, so that a process that dies leaves a torn file.       *)
(***************************************************************************)
EXTENDS CandleSources

VARIABLES
  file,   \* disk: the months that have a file, and the days in it
  dump,   \* the call in progress
  absent  \* history: days of over months a fetch found no daily file of

dumpVars == <<file, dump, absent>>

NoDump == [pc |-> "idle"]
TornDays == {-1}
IsDump == source \in {"funding", "metrics"}

InitDump == file = << >> /\ dump = NoDump /\ absent = {}

DaysOf(m) == {d \in Days : d \div DaysPerMonth = m}
DayListed(d) == StartOf(listing) < DayStart(d + 1)

(* The clock is read once, before the months are fetched.  Callers ask for  *)
(* the past: months that have begun.                                       *)
DumpRequest(first, last) ==
  /\ dump = NoDump /\ IsDump
  /\ MonthStart(last) <= now
  /\ dump' = [pc |-> "month", todo |-> first..last, days |-> {},
              current |-> now \div (MonthStart(1))]
  /\ UNCHANGED <<file, absent>>

(* A month that is cached is read; reading a torn file raises.             *)
DumpRead ==
  /\ dump.pc = "month" /\ dump.todo # {}
  /\ LET m == Min(dump.todo)
     IN /\ m \in DOMAIN file
        /\ dump' = IF file[m] = TornDays THEN NoDump
                   ELSE [dump EXCEPT !.todo = dump.todo \ {m}]
  /\ UNCHANGED <<file, absent>>

(* Its days: those of the monthly file, or of the daily files there are.   *)
FetchMonth(m) ==
  IF source = "funding"
  THEN IF Published([kind |-> "month", n |-> m]) THEN {d \in DaysOf(m) : DayListed(d)} ELSE {}
  ELSE {d \in DaysOf(m) : Published([kind |-> "day", n |-> d])}

(* Mutant of Keeps: a month in progress is kept too. *)
KeepsAny(m, days) == days # {}

(* An empty answer is not kept, nor is a metrics month in progress.        *)
Keeps(m, days) == days # {} /\ (source = "metrics" => m # dump.current)

DumpFetch ==
  /\ dump.pc = "month" /\ dump.todo # {}
  /\ LET m == Min(dump.todo)
         days == FetchMonth(m)
     IN /\ m \notin DOMAIN file
        /\ dump' = IF Keeps(m, days) THEN [dump EXCEPT !.pc = "write", !.days = days]
                   ELSE [dump EXCEPT !.todo = dump.todo \ {m}]
        /\ absent' = absent \cup
             {d \in DaysOf(m) : MonthStart(m + 1) <= now /\ ~Published([kind |-> "day", n |-> d])}
  /\ UNCHANGED file

DumpWrite ==
  /\ dump.pc = "write"
  /\ file' = Written(file, Min(dump.todo), dump.days)
  /\ dump' = [dump EXCEPT !.pc = "month", !.todo = dump.todo \ {Min(dump.todo)}, !.days = {}]
  /\ UNCHANGED absent

DumpReturn ==
  dump.pc = "month" /\ dump.todo = {} /\ dump' = NoDump /\ UNCHANGED <<file, absent>>

(* A request fails, or the process dies; in the middle of a write it leaves *)
(* a torn file.                                                            *)
DumpCrash ==
  /\ dump # NoDump
  /\ dump' = NoDump
  /\ file' \in {file} \cup
       (IF dump.pc = "write" THEN {Written(file, Min(dump.todo), TornDays)} ELSE {})
  /\ UNCHANGED absent

DumpStep ==
  \/ \E first, last \in MonthNumbers : first <= last /\ DumpRequest(first, last)
  \/ DumpRead \/ DumpFetch \/ DumpWrite \/ DumpReturn \/ DumpCrash

(* A cached month of funding rates or metrics is read for ever, so it holds *)
(* no day the symbol was not listed on and every day it was: a month that   *)
(* is not over, or whose file was not there yet, is not kept.  Only a       *)
(* metrics month may lack a day, one a fetch found no daily file of after   *)
(* the month was over (metrics_fetcher.py:5; a finding: DumpIsSource).      *)
Whole(m, days) ==
  /\ days \subseteq {d \in DaysOf(m) : DayListed(d)}
  /\ \A d \in DaysOf(m) \ days : DayListed(d) => source = "metrics" /\ d \in absent
DumpIsWhole == \A m \in DOMAIN file : file[m] = TornDays \/ Whole(m, file[m])

(* What the docstring of metrics_fetcher.py says of a cached month.         *)
DumpIsSource ==
  \A m \in DOMAIN file :
    file[m] = TornDays \/ file[m] = {d \in DaysOf(m) : DayListed(d)}
============================================================================

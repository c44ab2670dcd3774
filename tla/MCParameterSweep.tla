-------------------------- MODULE MCParameterSweep --------------------------
(***************************************************************************)
(* A small instance of ParameterSweep: four jobs on two symbols that share *)
(* a moving average, one of them with a subclass that computes it another  *)
(* way and one with another depth of history; a grid with a job that       *)
(* fails, one on a symbol without candles, and an empty one.               *)
(***************************************************************************)
EXTENDS ParameterSweep

Ind(window, custom, depth) ==
  [class |-> "ma", window |-> window, custom |-> custom, depth |-> depth]
Job(symbols, inds) == [symbols |-> symbols, inds |-> inds, fails |-> FALSE]

MCJobs ==
  <<Job({"a"}, {Ind(2, FALSE, 8)}), Job({"a", "b"}, {Ind(2, FALSE, 9), Ind(3, FALSE, 8)}),
    Job({"a"}, {Ind(2, TRUE, 8)}), Job({"b"}, {Ind(3, FALSE, 8)})>>
MCJobLists ==
  {MCJobs, [MCJobs EXCEPT ![3].fails = TRUE], <<Job({"c"}, {Ind(2, FALSE, 8)})>>, <<>>}

=============================================================================

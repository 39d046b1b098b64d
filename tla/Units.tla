------------------------------- MODULE Units -------------------------------
(* A reading of a file as a list of units, each the step it commits and    *)
(* what it is refused for, or "none".                                       *)
EXTENDS Integers, FiniteSetsExt, SequencesExt

Unit(record, fault) == [record |-> record, fault |-> fault]

\* A unit that commits nothing.
Nothing == [part |-> "None"]

\* What the units commit up to the first fault, and that fault.
Reads(units) ==
  LET faults == {i \in DOMAIN units : units[i].fault # "none"}
      good   == IF faults = {} THEN units ELSE SubSeq(units, 1, Min(faults) - 1)
  IN [commits |-> SelectSeq([i \in DOMAIN good |-> good[i].record],
                            LAMBDA r : r # Nothing),
      failure |-> IF faults = {} THEN "none" ELSE units[Min(faults)].fault]
=============================================================================
